---- MODULE Spec2Model ----
(***************************************************************************)
(* Production planner: the day optimizer (optimizeDaySchedulesOp), the     *)
(* store commit (updateScheduleOp) and the drag-and-drop move validator    *)
(* (checkDropValidity).                                                    *)
(*                                                                         *)
(* Time.  A JavaScript Date is modelled as a whole number of seconds of    *)
(* local time counted from 00:00:00 of day 0, which is a Sunday.  The      *)
(* source works in milliseconds; nothing it does distinguishes instants    *)
(* inside one second, while the second inside a minute matters wherever    *)
(* it reads getHours()*60 + getMinutes() or calls setSeconds(0, 0).        *)
(* toISOString()/new Date(iso) is the identity on instants.                *)
(* Durations that the source holds in (possibly fractional) minutes are    *)
(* held here in seconds: a product's timePerUnitMinutes of 7.5 is 450.     *)
(***************************************************************************)
EXTENDS Integers, Sequences, FiniteSets, TLC

VARIABLES
    schedules,  \* AppDataProvider state: the runs, an array kept sorted by startTime
    now,        \* the wall clock: new Date() / the chart's currentTime prop
    error,      \* AppDataProvider state set by handleError: the failed operation, or "none"
    lastOp,     \* what the last operation was given and what it returned
    moves,      \* how many runs have been dropped on the chart so far
    draggedItem, \* GanttChart state: the run picked up at drag start, or NoDrag
    inflight,   \* the commit loops that have begun and not yet ended: what each has
                \* still to hand to updateScheduleOp
    lineForm    \* LineInfoForm state while the modal is open: name, operatingHours,
                \* timeErrors; NoForm while it is closed

vars == <<schedules, now, error, lastOp, moves, draggedItem, inflight, lineForm>>

----------------------------------------------------------------------------
(* Calendar arithmetic of Date *)

SecondsPerMinute == 60
MinutesPerHour == 60
HoursPerDay == 24
DaysPerWeek == 7

SecondsPerDay == HoursPerDay * MinutesPerHour * SecondsPerMinute

\* the instant day d, hh:mm:ss
At(d, hh, mm, ss) == d * SecondsPerDay + (hh * MinutesPerHour + mm) * SecondsPerMinute + ss

\* getFullYear(), getMonth(), getDate() taken together: the calendar day of an instant
DayOf(t) == t \div SecondsPerDay

\* getDay(): 0 = Sunday .. 6 = Saturday
getDay(t) == DayOf(t) % DaysPerWeek

\* getHours() * 60 + getMinutes(): the seconds of the instant are dropped
MinutesOfDay(t) == (t % SecondsPerDay) \div SecondsPerMinute

\* setSeconds(0, 0)
TruncateToMinute(t) == t - (t % SecondsPerMinute)

\* setHours(Math.floor(m / 60), m % 60, 0, 0) on the midnight of day d
SetMinutesOfDay(d, m) == d * SecondsPerDay + m * SecondsPerMinute

\* "HH:MM" is the pair <<HH, MM>>; a string with no colon is <<>>
timeToMinutes(timeStr) ==
    IF Len(timeStr) < 2 THEN 0 ELSE timeStr[1] * MinutesPerHour + timeStr[2]

Max(a, b) == IF a >= b THEN a ELSE b

----------------------------------------------------------------------------
(* The catalog the store supplies: products and production lines *)

Pendente == "Pendente"
EmProgresso == "Em Progresso"
Concluido == "Concluido"
Cancelado == "Cancelado"
Statuses == {Pendente, EmProgresso, Concluido, Cancelado}

TopSeller == "Top Seller"
Normal == "Normal"

\* the default weekly calendar of a line: Monday to Friday, 08:00 to 17:00
DefaultOperatingHours ==
    [i \in 1..DaysPerWeek |->
        [dayOfWeek |-> i - 1, startTime |-> <<8, 0>>, endTime |-> <<17, 0>>,
         isActive |-> (i - 1 >= 1 /\ i - 1 <= 5)]]

\* a line working every day of the week, 08:00 to 11:52
MorningOperatingHours ==
    [i \in 1..DaysPerWeek |->
        [dayOfWeek |-> i - 1, startTime |-> <<8, 0>>, endTime |-> <<11, 52>>,
         isActive |-> TRUE]]

products ==
    [PN |-> [id |-> "PN", name |-> "PN", classification |-> Normal,
             processingTimes |-> <<[equipmentId |-> "E1", timePerUnitMinutes |-> 450]>>],
     PT |-> [id |-> "PT", name |-> "PT", classification |-> TopSeller,
             processingTimes |-> <<[equipmentId |-> "E1", timePerUnitMinutes |-> 3600]>>],
     PZ |-> [id |-> "PZ", name |-> "PZ", classification |-> Normal,
             processingTimes |-> <<>>]]

productionLines ==
    [L1 |-> [id |-> "L1", name |-> "L1", equipmentIds |-> <<"E1", "E2">>,
             operatingHours |-> DefaultOperatingHours],
     L2 |-> [id |-> "L2", name |-> "L2", equipmentIds |-> <<"E2", "E1">>,
             operatingHours |-> MorningOperatingHours]]

\* products.find(p => p.id === id) is undefined for an id the catalog lacks
HasProduct(id) == id \in DOMAIN products
getProductById(id) == products[id]
HasLine(id) == id \in DOMAIN productionLines
getProductionLineById(id) == productionLines[id]

\* getProductById(id)?.classification
ClassificationOf(id) ==
    IF HasProduct(id) THEN getProductById(id).classification ELSE "undefined"

----------------------------------------------------------------------------
(* Duration of a product on a line *)

RECURSIVE FindProcessingTime(_, _)
\* processingTimes.find(pt => pt.equipmentId === eqId): the first match, or <<>>
FindProcessingTime(processingTimes, eqId) ==
    IF processingTimes = <<>> THEN <<>>
    ELSE IF Head(processingTimes).equipmentId = eqId THEN <<Head(processingTimes)>>
    ELSE FindProcessingTime(Tail(processingTimes), eqId)

RECURSIVE TotalDurationUntilMissing(_, _)
\* the loop leaving at the first equipment the product's profile lacks (a break where
\* the code falls through to the next equipment)
TotalDurationUntilMissing(product, equipmentIds) ==
    IF equipmentIds = <<>> THEN 0
    ELSE LET productTimeForEq == FindProcessingTime(product.processingTimes, Head(equipmentIds))
         IN  IF productTimeForEq = <<>> THEN 0
             ELSE productTimeForEq[1].timePerUnitMinutes
                    + TotalDurationUntilMissing(product, Tail(equipmentIds))

RECURSIVE TotalDurationForOneUnit(_, _)
\* the for loop over line.equipmentIds
TotalDurationForOneUnit(product, equipmentIds) ==
    IF equipmentIds = <<>> THEN 0
    ELSE LET productTimeForEq == FindProcessingTime(product.processingTimes, Head(equipmentIds))
         IN  (IF productTimeForEq # <<>> THEN productTimeForEq[1].timePerUnitMinutes ELSE 0)
             + TotalDurationForOneUnit(product, Tail(equipmentIds))

\* the function without its test of the quantity
calculateWithoutQuantityTest(product, line, quantity) ==
    IF Len(product.processingTimes) = 0 THEN 0
    ELSE IF Len(line.equipmentIds) = 0 THEN 0
    ELSE TotalDurationForOneUnit(product, line.equipmentIds) * quantity

\* the function with its result rounded up to whole minutes
calculateRoundedUpToMinute(product, line, quantity) ==
    IF quantity <= 0 THEN 0
    ELSE IF Len(product.processingTimes) = 0 THEN 0
    ELSE IF Len(line.equipmentIds) = 0 THEN 0
    ELSE ((TotalDurationForOneUnit(product, line.equipmentIds) * quantity
            + SecondsPerMinute - 1) \div SecondsPerMinute) * SecondsPerMinute

calculateProductDurationOnLine(product, line, quantity) ==
    IF quantity <= 0 THEN 0
    ELSE IF Len(product.processingTimes) = 0 THEN 0
    ELSE IF Len(line.equipmentIds) = 0 THEN 0
    ELSE TotalDurationForOneUnit(product, line.equipmentIds) * quantity

----------------------------------------------------------------------------
(* Array helpers *)

RECURSIVE InsertByStartTime(_, _)
\* s is put after every element that does not start later than it (the sort is stable)
InsertByStartTime(sorted, s) ==
    IF sorted = <<>> THEN <<s>>
    ELSE IF Head(sorted).startTime <= s.startTime
         THEN <<Head(sorted)>> \o InsertByStartTime(Tail(sorted), s)
         ELSE <<s>> \o sorted

RECURSIVE SortByStartTime(_)
\* arr.sort((a, b) => new Date(a.startTime).getTime() - new Date(b.startTime).getTime())
SortByStartTime(arr) ==
    IF arr = <<>> THEN <<>>
    ELSE InsertByStartTime(SortByStartTime(SubSeq(arr, 1, Len(arr) - 1)), arr[Len(arr)])

IsSortedByStartTime(arr) ==
    \A i \in 1..(Len(arr) - 1) : arr[i].startTime <= arr[i + 1].startTime

RECURSIVE UniqueInOrder(_)
\* [...new Set(xs)]: each value once, in the order of its first occurrence
UniqueInOrder(xs) ==
    IF xs = <<>> THEN <<>>
    ELSE LET init == UniqueInOrder(SubSeq(xs, 1, Len(xs) - 1))
             x == xs[Len(xs)]
         IN  IF \E i \in 1..Len(init) : init[i] = x THEN init ELSE Append(init, x)

Ids(arr) == {arr[i].id : i \in 1..Len(arr)}
ById(arr, id) == arr[CHOOSE i \in 1..Len(arr) : arr[i].id = id]

----------------------------------------------------------------------------
(* The conflict test shared by the optimizer and the validator *)

\* the conflict test closed at the end of the proposal: a proposal that ends the
\* instant an existing run starts is taken as a conflict
OverlapsWhenTouching(proposedStart, proposedEnd, existingStart, existingEnd) ==
    proposedStart < existingEnd /\ proposedEnd >= existingStart

\* the conflict test with existingEnd written where existingStart belongs
OverlapsAgainstEndOnly(proposedStart, proposedEnd, existingStart, existingEnd) ==
    proposedStart < existingEnd /\ proposedEnd > existingEnd

\* proposedStart < existingEnd && proposedEnd > existingStart
Overlaps(proposedStart, proposedEnd, existingStart, existingEnd) ==
    proposedStart < existingEnd /\ proposedEnd > existingStart

----------------------------------------------------------------------------
(* optimizeDaySchedulesOp: the computation of the placements *)

\* one line of `details`.  kind: which message; ref: the run it names (0: none); lineId; at: the start it reports
Detail(kind, ref, lineId, at) == [kind |-> kind, ref |-> ref, lineId |-> lineId, at |-> at]

\* the pass without its same-day filter: every run of the snapshot is taken as starting
\* on the target day
SchedulesOfAnyDay(snapshot, targetDay) == snapshot

\* the runs of the snapshot that start on the target day
SchedulesStartingOnTargetDay(snapshot, targetDay) ==
    SelectSeq(snapshot, LAMBDA s : DayOf(s.startTime) = targetDay)

LineIdsToProcess(startingOnDay) ==
    UniqueInOrder([i \in 1..Len(startingOnDay) |-> startingOnDay[i].lineId])

\* a movable run: the product is Normal and the run still Pendente
IsNormalPending(schedule) ==
    ClassificationOf(schedule.productId) = Normal /\ schedule.status = Pendente

\* the partition with the status test of the fixed branch left out: a Normal run that
\* has left Pendente falls through to the movable ones
PartitionBranchIgnoringStatus(schedule) ==
    LET cls == ClassificationOf(schedule.productId)
    IN  IF cls = TopSeller THEN "fixed"
        ELSE IF cls = Normal THEN "normalPending"
        ELSE "unexpected"

\* the branch the partition takes for a run: "fixed" (a Top Seller, or a Normal product
\* that has left Pendente), "normalPending", or "unexpected" (anything else)
PartitionBranch(schedule) ==
    LET cls == ClassificationOf(schedule.productId)
    IN  IF cls = TopSeller \/ (cls = Normal /\ schedule.status # Pendente) THEN "fixed"
        ELSE IF cls = Normal /\ schedule.status = Pendente THEN "normalPending"
        ELSE "unexpected"

RECURSIVE PartitionLine(_, _)
\* the forEach over schedulesForThisLineToday: the fixed runs, the movable runs,
\* and what it adds to unoptimizedCount and details
PartitionLine(forLine, acc) ==
    IF forLine = <<>> THEN acc
    ELSE LET schedule == Head(forLine)
             cls == ClassificationOf(schedule.productId)
             branch == PartitionBranch(schedule)
             next ==
                IF branch = "fixed"
                THEN [acc EXCEPT
                        !.fixed = Append(@, schedule),
                        !.unoptimizedCount = IF cls = Normal THEN @ + 1 ELSE @,
                        !.details = IF cls = Normal
                                    THEN Append(@, Detail("kept", schedule.id, schedule.lineId, -1))
                                    ELSE @]
                ELSE IF branch = "normalPending"
                THEN [acc EXCEPT !.normalPending = Append(@, schedule)]
                ELSE [acc EXCEPT
                        !.fixed = Append(@, schedule),
                        !.unoptimizedCount = @ + 1,
                        !.details = Append(@, Detail("unexpected", schedule.id, schedule.lineId, -1))]
         IN  PartitionLine(Tail(forLine), next)

\* the first slot of currentAvailableSlots the proposed interval collides with, or 0
FirstCollision(slots, proposedStart, proposedEnd) ==
    LET hits == {i \in 1..Len(slots) :
                    Overlaps(proposedStart, proposedEnd, slots[i].startTime, slots[i].endTime)}
    IN  IF hits = {} THEN 0 ELSE CHOOSE i \in hits : \A j \in hits : i <= j

\* the test that ends the search once the proposed end is past the operating window
EndsPastWindow(proposedEnd, targetDay, lineOpEndMinutes) ==
    /\ (DayOf(proposedEnd) # targetDay \/ MinutesOfDay(proposedEnd) > lineOpEndMinutes)
    /\ ~(DayOf(proposedEnd) = targetDay /\ MinutesOfDay(proposedEnd) = lineOpEndMinutes)

RECURSIVE SearchSlot(_, _, _, _, _, _)
\* the while (true) loop: the start of the slot found, or -1 when the search gives up
SearchSlot(attemptStartTime, effectiveStart, durationMinutes, slots, targetDay, lineOpEndMinutes) ==
    IF DayOf(attemptStartTime) # targetDay \/ MinutesOfDay(attemptStartTime) >= lineOpEndMinutes
    THEN -1
    ELSE LET proposedStartTime == attemptStartTime
             proposedEndTime == proposedStartTime + durationMinutes
             hit == FirstCollision(slots, proposedStartTime, proposedEndTime)
         IN  IF EndsPastWindow(proposedEndTime, targetDay, lineOpEndMinutes) THEN -1
             ELSE IF hit # 0
             THEN SearchSlot(Max(slots[hit].endTime, effectiveStart), effectiveStart,
                             durationMinutes, slots, targetDay, lineOpEndMinutes)
             ELSE proposedStartTime

\* the calendar looked up by position, one entry too far: Sunday gets Monday's hours
FindOperatingHoursNextDay(line, dayOfWeek) ==
    IF Len(line.operatingHours) = 0 THEN <<>>
    ELSE <<line.operatingHours[((dayOfWeek + 1) % Len(line.operatingHours)) + 1]>>

\* line.operatingHours.find(oh => oh.dayOfWeek === dayOfWeek): <<the entry>> or <<>>
FindOperatingHours(line, dayOfWeek) ==
    LET hits == {i \in 1..Len(line.operatingHours) :
                    line.operatingHours[i].dayOfWeek = dayOfWeek}
    IN  IF hits = {} THEN <<>>
        ELSE <<line.operatingHours[CHOOSE i \in hits : \A j \in hits : i <= j]>>

\* the search origin without the isToday branch: the start of the operating window,
\* whatever the clock reads
EffectiveStartIgnoringClock(targetDay, lineOpStartMinutes, clock) ==
    SetMinutesOfDay(targetDay, lineOpStartMinutes)

\* the search origin: the operating-window start, or the current minute when later today
EffectiveStartOfSearchWindow(targetDay, lineOpStartMinutes, clock) ==
    LET windowStart == SetMinutesOfDay(targetDay, lineOpStartMinutes)
        isToday == (targetDay = DayOf(clock))
        currentTimeToday == TruncateToMinute(clock)
    IN  IF isToday /\ currentTimeToday > windowStart THEN currentTimeToday ELSE windowStart

RECURSIVE PlaceNormalSchedules(_, _, _, _, _, _)
\* the for loop over normalPendingSchedulesForOptimization of one line
PlaceNormalSchedules(normals, line, slots, targetDay, clock, acc) ==
    IF normals = <<>> THEN acc
    ELSE
    LET normalSchedule == Head(normals)
        rest == Tail(normals)
        skip(kind) ==
            PlaceNormalSchedules(rest, line, slots, targetDay, clock,
                [acc EXCEPT !.unoptimizedCount = @ + 1,
                            !.details = Append(@, Detail(kind, normalSchedule.id, line.id, -1))])
    IN
    IF ~HasProduct(normalSchedule.productId) THEN skip("productNotFound")
    ELSE
    LET product == getProductById(normalSchedule.productId)
        durationMinutes == calculateProductDurationOnLine(product, line, normalSchedule.quantity)
        dayOfWeekForOptimization == targetDay % DaysPerWeek
        lineOpHoursForDay == FindOperatingHours(line, dayOfWeekForOptimization)
    IN
    IF durationMinutes <= 0 THEN skip("invalidDuration")
    ELSE IF lineOpHoursForDay = <<>> \/ ~lineOpHoursForDay[1].isActive THEN skip("lineInactive")
    ELSE
    LET lineOpStartMinutes == timeToMinutes(lineOpHoursForDay[1].startTime)
        lineOpEndMinutes == timeToMinutes(lineOpHoursForDay[1].endTime)
        effectiveStart == EffectiveStartOfSearchWindow(targetDay, lineOpStartMinutes, clock)
    IN
    IF MinutesOfDay(effectiveStart) >= lineOpEndMinutes THEN skip("pastEndOfOperation")
    ELSE
    LET found == SearchSlot(effectiveStart, effectiveStart, durationMinutes, slots,
                            targetDay, lineOpEndMinutes)
    IN
    IF found = -1 THEN skip("notPlaced")
    ELSE
    LET updatedNormalSchedule ==
            [normalSchedule EXCEPT !.startTime = found, !.endTime = found + durationMinutes]
    IN  PlaceNormalSchedules(rest, line,
            SortByStartTime(Append(slots, updatedNormalSchedule)), targetDay, clock,
            [acc EXCEPT !.schedulesToUpdate = Append(@, updatedNormalSchedule),
                        !.optimizedCount = @ + 1,
                        !.details = Append(@, Detail("optimized", normalSchedule.id, line.id, found))])

\* the iteration that, for a line the catalog lacks, reports the line and counts none
\* of its runs
ProcessLineNotCountingUnknownLine(lineId, startingOnDay, targetDay, clock, acc) ==
    LET forLine == SelectSeq(startingOnDay, LAMBDA s : s.lineId = lineId)
    IN
    IF ~HasLine(lineId)
    THEN [acc EXCEPT !.details = Append(@, Detail("lineNotFound", 0, lineId, -1))]
    ELSE
    LET line == getProductionLineById(lineId)
        parts == PartitionLine(forLine,
                    [fixed |-> <<>>, normalPending |-> <<>>,
                     unoptimizedCount |-> acc.unoptimizedCount, details |-> acc.details])
        fixedSchedulesOnThisLine == SortByStartTime(parts.fixed)
        normalPendingSchedulesForOptimization == SortByStartTime(parts.normalPending)
    IN  PlaceNormalSchedules(normalPendingSchedulesForOptimization, line,
            fixedSchedulesOnThisLine, targetDay, clock,
            [acc EXCEPT !.unoptimizedCount = parts.unoptimizedCount,
                        !.details = parts.details])

\* one iteration of the for loop over lineIdsToProcess
ProcessLine(lineId, startingOnDay, targetDay, clock, acc) ==
    LET forLine == SelectSeq(startingOnDay, LAMBDA s : s.lineId = lineId)
    IN
    IF ~HasLine(lineId)
    THEN [acc EXCEPT
            !.details = Append(@, Detail("lineNotFound", 0, lineId, -1)),
            !.unoptimizedCount =
                @ + Cardinality({i \in 1..Len(forLine) : IsNormalPending(forLine[i])})]
    ELSE
    LET line == getProductionLineById(lineId)
        parts == PartitionLine(forLine,
                    [fixed |-> <<>>, normalPending |-> <<>>,
                     unoptimizedCount |-> acc.unoptimizedCount, details |-> acc.details])
        fixedSchedulesOnThisLine == SortByStartTime(parts.fixed)
        normalPendingSchedulesForOptimization == SortByStartTime(parts.normalPending)
    IN  PlaceNormalSchedules(normalPendingSchedulesForOptimization, line,
            fixedSchedulesOnThisLine, targetDay, clock,
            [acc EXCEPT !.unoptimizedCount = parts.unoptimizedCount,
                        !.details = parts.details])

RECURSIVE ProcessLines(_, _, _, _, _)
ProcessLines(lineIds, startingOnDay, targetDay, clock, acc) ==
    IF lineIds = <<>> THEN acc
    ELSE ProcessLines(Tail(lineIds), startingOnDay, targetDay, clock,
            ProcessLine(Head(lineIds), startingOnDay, targetDay, clock, acc))

\* everything optimizeDaySchedulesOp computes before it commits:
\* optimizedCount, unoptimizedCount, details and schedulesToUpdate
ComputePlacements(snapshot, targetDay, clock) ==
    LET startingOnDay == SchedulesStartingOnTargetDay(snapshot, targetDay)
    IN  ProcessLines(LineIdsToProcess(startingOnDay), startingOnDay, targetDay, clock,
            [optimizedCount |-> 0, unoptimizedCount |-> 0, details |-> <<>>,
             schedulesToUpdate |-> <<>>])

\* what the else branch after the commit loop adds to details
EmptyResultDetails(res, snapshot, targetDay) ==
    LET startingOnDay == SchedulesStartingOnTargetDay(snapshot, targetDay)
        hasNormalPendente == \E i \in 1..Len(startingOnDay) : IsNormalPending(startingOnDay[i])
    IN  IF Len(res.schedulesToUpdate) = 0
           /\ res.optimizedCount = 0 /\ res.unoptimizedCount = 0
           /\ Len(LineIdsToProcess(startingOnDay)) > 0
        THEN IF ~hasNormalPendente /\ Len(startingOnDay) > 0
             THEN Append(res.details, Detail("noNormalPendente", 0, "", -1))
             ELSE IF Len(startingOnDay) = 0
             THEN Append(res.details, Detail("noSchedules", 0, "", -1))
             ELSE res.details
        ELSE res.details

----------------------------------------------------------------------------
(* updateScheduleOp: the commit of one run to the store *)

\* the updater of deleteScheduleOp in the place of the one of updateScheduleOp: the run
\* with the item's id is filtered out of the array
ApplyUpdateDroppingRun(prev, item) ==
    SortByStartTime(SelectSeq(prev, LAMBDA s : s.id # item.id))

\* the row came back: the run with the item's id is replaced and the array sorted again
ApplyUpdate(prev, item) ==
    SortByStartTime([i \in 1..Len(prev) |-> IF prev[i].id = item.id THEN item ELSE prev[i]])

RECURSIVE CommitAllOptimistic(_, _, _)
\* the commit loop with the array updated before the store answers, and not rolled
\* back when the store refuses
CommitAllOptimistic(prev, toUpdate, failing) ==
    IF toUpdate = <<>> THEN prev
    ELSE CommitAllOptimistic(ApplyUpdate(prev, Head(toUpdate)), Tail(toUpdate), failing)

RECURSIVE CommitAll(_, _, _)
\* the commit loop: one updateScheduleOp per run, in order; the commits of the runs in
\* `failing` are refused by the store, which leaves the array as it was
CommitAll(prev, toUpdate, failing) ==
    IF toUpdate = <<>> THEN prev
    ELSE CommitAll(IF Head(toUpdate).id \in failing THEN prev ELSE ApplyUpdate(prev, Head(toUpdate)),
                   Tail(toUpdate), failing)

----------------------------------------------------------------------------
(* The states the store can hand over *)

MaxRuns == 3
LastDay == 1

\* the calendar days of the model: day 0 is a Sunday, day 1 the Monday after it
Days == 0..LastDay

Run(productId, lineId, startTime, endTime, quantity, status) ==
    [productId |-> productId, lineId |-> lineId, startTime |-> startTime,
     endTime |-> endTime, quantity |-> quantity, status |-> status, notes |-> ""]

\* Normal products waiting on a line: the runs the optimizer may move
MovableTemplates ==
    { Run("PN", "L1", At(1, 8, 0, 0), At(1, 10, 0, 0), 16, Pendente),
      Run("PN", "L1", At(1, 8, 30, 0), At(1, 10, 0, 0), 12, Pendente),
      Run("PN", "L1", At(1, 8, 0, 0), At(1, 14, 0, 0), 48, Pendente),
      Run("PN", "L1", At(1, 9, 0, 0), At(1, 9, 7, 30), 1, Pendente),
      Run("PN", "L1", At(0, 10, 0, 0), At(0, 12, 0, 0), 16, Pendente),
      Run("PN", "L2", At(1, 8, 0, 0), At(1, 10, 0, 0), 16, Pendente),
      Run("PN", "LX", At(1, 8, 0, 0), At(1, 10, 0, 0), 16, Pendente),
      Run("PZ", "L1", At(1, 8, 0, 0), At(1, 9, 0, 0), 4, Pendente) }

\* Top Sellers, runs that have left Pendente, and a run of a product the catalog lacks
LockedTemplates ==
    { Run("PT", "L1", At(1, 9, 0, 0), At(1, 10, 0, 0), 1, Pendente),
      Run("PT", "L1", At(0, 23, 0, 0), At(1, 9, 0, 0), 10, Pendente),
      Run("PN", "L1", At(1, 8, 0, 0), At(1, 10, 0, 0), 16, EmProgresso),
      Run("PN", "L1", At(1, 10, 0, 0), At(1, 12, 0, 0), 16, Concluido),
      Run("PN", "L1", At(1, 8, 30, 0), At(1, 10, 0, 0), 12, Cancelado),
      Run("PX", "L1", At(1, 10, 0, 0), At(1, 11, 0, 0), 1, Pendente) }

RunTemplates == MovableTemplates \cup LockedTemplates

WithId(r, id) ==
    [id |-> id, productId |-> r.productId, lineId |-> r.lineId, startTime |-> r.startTime,
     endTime |-> r.endTime, quantity |-> r.quantity, status |-> r.status, notes |-> r.notes]

\* the arrays fetchInitialData can load: up to MaxRuns runs ordered by start_time;
\* ids carry no meaning, so the run at position i gets the id i
InitialSchedules ==
    { [i \in DOMAIN s |-> WithId(s[i], i)] :
        s \in { t \in UNION { [1..n -> RunTemplates] : n \in 0..MaxRuns } :
                    IsSortedByStartTime(t) } }

\* the instants at which the operations are invoked
ClockReadings == { At(0, 12, 0, 10), At(1, 9, 15, 30), At(1, 16, 53, 20) }

NoOp == [op |-> "none"]

\* useState<...>(null) of draggedItem
NoDrag == [id |-> 0]

\* the modal of LineInfoForm is closed
NoForm == [open |-> FALSE]

Init ==
    /\ schedules \in InitialSchedules
    /\ now \in ClockReadings
    /\ error = "none"
    /\ lastOp = NoOp
    /\ moves = 0
    /\ draggedItem = NoDrag
    /\ inflight = <<>>
    /\ lineForm = NoForm

----------------------------------------------------------------------------
(* optimizeDaySchedulesOp *)

\* the pass before this one was the same call, and the store took all its commits
IsRepeatOf(op, targetDay, clock) ==
    /\ op.op = "optimizeDay"
    /\ op.targetDay = targetDay
    /\ op.now = clock
    /\ op.failing = {}

\* one call of optimizeDaySchedulesOp(targetDay), the commit loop included; the store
\* refuses the commits of the runs in `failing`
OptimizeDay(targetDay, res, failing) ==
    /\ schedules' = CommitAll(schedules, res.schedulesToUpdate, failing)
    /\ error' = IF failing # {} THEN "updateSchedule" ELSE error
    /\ lastOp' = [op |-> "optimizeDay", targetDay |-> targetDay, now |-> now,
                  before |-> schedules,
                  schedulesToUpdate |-> res.schedulesToUpdate,
                  failing |-> failing,
                  optimizedCount |-> res.optimizedCount,
                  unoptimizedCount |-> res.unoptimizedCount,
                  details |-> EmptyResultDetails(res, schedules, targetDay),
                  repeat |-> IsRepeatOf(lastOp, targetDay, now)]
    /\ UNCHANGED <<now, moves, draggedItem, inflight, lineForm>>

OptimizeDaySchedules ==
    \E targetDay \in Days :
        \E res \in {ComputePlacements(schedules, targetDay, now)} :
            \E failing \in SUBSET Ids(res.schedulesToUpdate) :
                OptimizeDay(targetDay, res, failing)

NextOptimize == OptimizeDaySchedules

SpecOptimize == Init /\ [][NextOptimize]_vars

----------------------------------------------------------------------------
(* checkDropValidity: the verdict on one proposed move *)

Verdict(valid, message) == [valid |-> valid, message |-> message]

\* the operating-hours test of the proposed interval against the window of the chart's day
OutsideOperatingHours(newStartTime, newEndTime, day, opStartMinutes, opEndMinutes) ==
    /\ \/ DayOf(newStartTime) # day
       \/ MinutesOfDay(newStartTime) < opStartMinutes
       \/ DayOf(newEndTime) # day
       \/ MinutesOfDay(newEndTime) > opEndMinutes
    /\ ~(/\ DayOf(newEndTime) = day
         /\ MinutesOfDay(newEndTime) = opEndMinutes
         /\ MinutesOfDay(newStartTime) >= opStartMinutes)

\* the past-time test against the clock to the second, the minute not truncated
IsInThePastToTheSecond(newStartTime, day, currentTime) ==
    /\ day = DayOf(currentTime)
    /\ newStartTime < currentTime

\* the past-time test: only on the chart of today, against the current minute
IsInThePast(newStartTime, day, currentTime) ==
    /\ day = DayOf(currentTime)
    /\ newStartTime < TruncateToMinute(currentTime)

\* the other runs of the target line that start on the chart's day, in array order
SchedulesOnTargetDayAndLine(allSchedules, item, targetLineId, day) ==
    SelectSeq(allSchedules,
              LAMBDA s : s.lineId = targetLineId /\ s.id # item.id /\ DayOf(s.startTime) = day)

\* the runs among them the loop tests: a run whose product is unknown is passed over
BlocksMove(existingSchedule, newStartTime, newEndTime) ==
    /\ HasProduct(existingSchedule.productId)
    /\ Overlaps(newStartTime, newEndTime, existingSchedule.startTime, existingSchedule.endTime)

\* the message of a collision with existingSchedule
ConflictMessage(existingSchedule) ==
    IF ClassificationOf(existingSchedule.productId) = TopSeller
    THEN "conflictTopSeller" ELSE "conflictNormal"

checkDropValidity(item, targetLineId, newStartTime, day, currentTime, allSchedules) ==
    IF ~HasProduct(item.productId) \/ ~HasLine(targetLineId)
    THEN Verdict(FALSE, "notFound")
    ELSE IF item.status # Pendente THEN Verdict(FALSE, "status")
    ELSE
    LET durationMinutes == item.endTime - item.startTime
        newEndTime == newStartTime + durationMinutes
        lineOpHours == FindOperatingHours(getProductionLineById(targetLineId), day % DaysPerWeek)
    IN
    IF lineOpHours = <<>> \/ ~lineOpHours[1].isActive THEN Verdict(FALSE, "lineInactive")
    ELSE IF OutsideOperatingHours(newStartTime, newEndTime, day,
                                   timeToMinutes(lineOpHours[1].startTime),
                                   timeToMinutes(lineOpHours[1].endTime))
    THEN Verdict(FALSE, "outsideOperatingHours")
    ELSE IF IsInThePast(newStartTime, day, currentTime) THEN Verdict(FALSE, "pastTime")
    ELSE
    LET others == SchedulesOnTargetDayAndLine(allSchedules, item, targetLineId, day)
        hits == {i \in 1..Len(others) : BlocksMove(others[i], newStartTime, newEndTime)}
    IN  IF hits # {}
        THEN Verdict(FALSE, ConflictMessage(others[CHOOSE i \in hits : \A j \in hits : i <= j]))
        ELSE Verdict(TRUE, "none")

\* the times of day at which a move is proposed: the pointer's minute snapped to the
\* quarter hour
ProposedTimes ==
    { <<7, 30>>, <<8, 0>>, <<9, 0>>, <<9, 15>>, <<11, 45>>, <<15, 0>> }

\* the starts proposed on the chart of `day`: the times above on that day, and the
\* right edge of the chart, which is the midnight of the day after
ProposedStarts(day) ==
    { At(day, hm[1], hm[2], 0) : hm \in ProposedTimes } \cup { At(day + 1, 0, 0, 0) }

LineRefs == {"L1", "L2", "LX"}

\* the validator that applies what it accepts: an accepted position is written to the
\* run in the array
ValidateMoveApplying ==
    /\ lastOp.op # "validateMove"
    /\ \E i \in 1..Len(schedules) : \E targetLineId \in LineRefs : \E day \in Days :
        \E newStartTime \in ProposedStarts(day) :
         LET verdict == checkDropValidity(schedules[i], targetLineId, newStartTime, day,
                                          now, schedules)
         IN  /\ lastOp' = [op |-> "validateMove", item |-> schedules[i],
                           targetLineId |-> targetLineId, newStartTime |-> newStartTime,
                           day |-> day, now |-> now, verdict |-> verdict]
             /\ schedules' = IF verdict.valid
                              THEN ApplyUpdate(schedules,
                                      [schedules[i] EXCEPT
                                          !.startTime = newStartTime,
                                          !.endTime = newStartTime
                                              + (schedules[i].endTime - schedules[i].startTime),
                                          !.lineId = targetLineId])
                              ELSE schedules
             /\ UNCHANGED <<now, error, moves, draggedItem, inflight, lineForm>>

\* one evaluation of checkDropValidity; nothing but the record of it changes.
\* The verdict is a function of the arguments, schedules and now, and the record keeps
\* the last evaluation only: an evaluation that follows another one reaches no state
\* that the first could not reach, and is left out.
ValidateMove ==
    /\ lastOp.op # "validateMove"
    /\ \E i \in 1..Len(schedules) : \E targetLineId \in LineRefs : \E day \in Days :
        \E newStartTime \in ProposedStarts(day) :
         /\ lastOp' = [op |-> "validateMove", item |-> schedules[i],
                       targetLineId |-> targetLineId, newStartTime |-> newStartTime,
                       day |-> day, now |-> now,
                       verdict |-> checkDropValidity(schedules[i], targetLineId,
                                                     newStartTime, day, now, schedules)]
         /\ UNCHANGED <<schedules, now, error, moves, draggedItem, inflight, lineForm>>

NextValidate == ValidateMove

SpecValidate == Init /\ [][NextValidate]_vars

Next == OptimizeDaySchedules \/ ValidateMove

Spec == Init /\ [][Next]_vars

\* the two operations on the Sunday, at noon: Sunday is the current day, Monday is not
InitBoth == Init /\ now = At(0, 12, 0, 10)

SpecBoth == InitBoth /\ [][Next]_vars

----------------------------------------------------------------------------
(* The status clock: the setInterval callback of AppDataProvider *)

\* the status with the start test made strict: a run whose start is the current instant
\* is not yet taken as begun
NewStatusStrictlyAfterStart(schedule, currentTime) ==
    IF schedule.status = Pendente /\ currentTime > schedule.startTime
                                  /\ currentTime < schedule.endTime
    THEN EmProgresso
    ELSE IF schedule.status = EmProgresso /\ currentTime >= schedule.endTime THEN Concluido
    ELSE schedule.status

\* the status with the second branch lacking its status test: any run whose end has
\* passed is taken as finished
NewStatusEndedIsDone(schedule, currentTime) ==
    IF schedule.status = Pendente /\ currentTime >= schedule.startTime
                                  /\ currentTime < schedule.endTime
    THEN EmProgresso
    ELSE IF currentTime >= schedule.endTime THEN Concluido
    ELSE schedule.status

\* the status with the first branch lacking its test against the end: a Pendente run
\* whose start has passed is taken as begun
NewStatusCatchingUp(schedule, currentTime) ==
    IF schedule.status = Pendente /\ currentTime >= schedule.startTime
    THEN EmProgresso
    ELSE IF schedule.status = EmProgresso /\ currentTime >= schedule.endTime THEN Concluido
    ELSE schedule.status

\* newStatus: what the callback computes for one run at currentTime
NewStatus(schedule, currentTime) ==
    IF schedule.status = Pendente /\ currentTime >= schedule.startTime
                                  /\ currentTime < schedule.endTime
    THEN EmProgresso
    ELSE IF schedule.status = EmProgresso /\ currentTime >= schedule.endTime THEN Concluido
    ELSE schedule.status

\* the test that puts a run into schedulesToUpdate
NeedsStatusUpdate(schedule, currentTime) ==
    /\ schedule.status # Cancelado
    /\ schedule.status # Concluido
    /\ NewStatus(schedule, currentTime) # schedule.status

\* schedulesToUpdate holding no more than the first run that is due
StatusUpdatesOfFirstDue(snapshot, currentTime) ==
    LET due == SelectSeq(snapshot, LAMBDA s : NeedsStatusUpdate(s, currentTime))
    IN  [i \in 1..(IF Len(due) > 0 THEN 1 ELSE 0) |->
            [due[i] EXCEPT !.status = NewStatus(due[i], currentTime)]]

\* schedulesToUpdate of the callback: { ...schedule, status: newStatus }, in array order
StatusUpdates(snapshot, currentTime) ==
    LET due == SelectSeq(snapshot, LAMBDA s : NeedsStatusUpdate(s, currentTime))
    IN  [i \in 1..Len(due) |-> [due[i] EXCEPT !.status = NewStatus(due[i], currentTime)]]

\* one firing of the callback, the commit loop included; the store refuses the commits
\* of the runs in `failing`
StatusClockTick ==
    \E toUpdate \in {StatusUpdates(schedules, now)} :
        \E failing \in SUBSET Ids(toUpdate) :
            /\ schedules' = CommitAll(schedules, toUpdate, failing)
            /\ error' = IF failing # {} THEN "updateSchedule" ELSE error
            /\ lastOp' = [op |-> "tick", now |-> now, before |-> schedules,
                          schedulesToUpdate |-> toUpdate, failing |-> failing]
            /\ UNCHANGED <<now, moves, draggedItem, inflight, lineForm>>

\* the instants at which the callback fires: the readings above, the instant a run
\* starts and the instant a run ends
TickReadings == ClockReadings \cup { At(1, 8, 0, 0), At(1, 10, 0, 0) }

\* time passes between two firings
TimePasses ==
    /\ \E t \in TickReadings : t > now /\ now' = t
    /\ UNCHANGED <<schedules, error, lastOp, moves, draggedItem, inflight, lineForm>>

NextClock == StatusClockTick \/ TimePasses

SpecClock == Init /\ [][NextClock]_vars

----------------------------------------------------------------------------
(* A manual move: handleDragStart, handleDragOver and handleDrop of GanttChart *)

MaxMoves == 1

\* handleDragStart lets the drag begin: the run is no Top Seller and is Pendente
CanStartDrag(scheduleItem) ==
    ClassificationOf(scheduleItem.productId) # TopSeller /\ scheduleItem.status = Pendente

\* updatedScheduleData of handleDrop: the dragged run with the new start, the end that
\* keeps its length, and the target line
UpdatedScheduleData(schedule, targetLineId, newStartTime) ==
    [schedule EXCEPT !.startTime = newStartTime,
                     !.endTime = newStartTime + (schedule.endTime - schedule.startTime),
                     !.lineId = targetLineId]

\* a run is dragged over a line of the chart of `day` and dropped where the last
\* handleDragOver found the position valid; handleDrop commits it with one
\* updateSchedule, which the store takes or refuses
HandleDrop ==
    /\ moves < MaxMoves
    /\ \E i \in 1..Len(schedules) : \E targetLineId \in LineRefs : \E day \in Days :
        \E newStartTime \in ProposedStarts(day) : \E failing \in SUBSET {schedules[i].id} :
         LET updated == UpdatedScheduleData(schedules[i], targetLineId, newStartTime)
         IN  /\ CanStartDrag(schedules[i])
             /\ checkDropValidity(schedules[i], targetLineId, newStartTime, day, now,
                                  schedules).valid
             /\ schedules' = CommitAll(schedules, <<updated>>, failing)
             /\ error' = IF failing # {} THEN "updateSchedule" ELSE error
             /\ lastOp' = [op |-> "drop", now |-> now, before |-> schedules,
                           schedulesToUpdate |-> <<updated>>, failing |-> failing]
             /\ moves' = moves + 1
             /\ UNCHANGED <<now, draggedItem, inflight, lineForm>>

\* the three operations that commit runs to the store, in any order, within one
\* reading of the clock, on the arrays of fewer than MaxRuns runs
NextCommit == OptimizeDaySchedules \/ StatusClockTick \/ HandleDrop

InitCommit == Init /\ Len(schedules) < MaxRuns

SpecCommit == InitCommit /\ [][NextCommit]_vars

----------------------------------------------------------------------------
(* calculateProductDurationOnLine as a function of its arguments *)

MaxQuantity == 4

\* the quantities a run can carry, zero and a negative one included
Quantities == -1..MaxQuantity

EquipmentIds == {"E1", "E2", "E3"}

\* the sequences of distinct elements of S, of length up to n
DistinctSeqs(S, n) ==
    { q \in UNION { [1..k -> S] : k \in 0..n } : \A i, j \in DOMAIN q : q[i] = q[j] => i = j }

\* the equipment sequences of a line: LineEquipmentConfigurator offers only the
\* equipment the line does not hold yet
EquipmentSequences == DistinctSeqs(EquipmentIds, 3)

\* per-unit times, in seconds: one minute, seven and a half minutes
TimesPerUnit == {60, 450}

\* the processing profiles of a product: at most two pieces of equipment, each once
ProcessingProfiles ==
    { [i \in DOMAIN ids |-> [equipmentId |-> ids[i], timePerUnitMinutes |-> t[i]]] :
        <<ids, t>> \in { c \in DistinctSeqs(EquipmentIds, 2) \X
                                UNION { [1..k -> TimesPerUnit] : k \in 0..2 } :
                            Len(c[1]) = Len(c[2]) } }

\* one evaluation of calculateProductDurationOnLine; nothing but the record of it
\* changes.  The result is a function of the arguments, and one evaluation per
\* behaviour reaches every state a longer behaviour reaches.
ComputeDuration ==
    /\ lastOp.op = "none"
    /\ \E processingTimes \in ProcessingProfiles : \E equipmentIds \in EquipmentSequences :
        \E quantity \in Quantities :
         LET product == [id |-> "P", name |-> "P", classification |-> Normal,
                         processingTimes |-> processingTimes]
             line == [id |-> "L", name |-> "L", equipmentIds |-> equipmentIds,
                      operatingHours |-> DefaultOperatingHours]
         IN  lastOp' = [op |-> "duration", product |-> product, line |-> line,
                        quantity |-> quantity,
                        result |-> calculateProductDurationOnLine(product, line, quantity)]
    /\ UNCHANGED <<schedules, now, error, moves, draggedItem, inflight, lineForm>>

NextDuration == ComputeDuration

InitDuration == Init /\ schedules = <<>>

SpecDuration == InitDuration /\ [][NextDuration]_vars

----------------------------------------------------------------------------
(* The operations as the event loop runs them: each commit loop awaits one
   updateScheduleOp after another, and between two awaits, and between drag start
   and drop, the other callbacks run *)

MaxInFlight == 2
MaxAsyncRuns == 1

\* a commit loop that has begun: who runs it, when it began, and the runs it has still
\* to hand to updateScheduleOp, each as it was computed from the array read at the start
Batch(by, at, queue) == [by |-> by, at |-> at, queue |-> queue]

\* the commit loops without the k-th
WithoutBatch(batches, k) ==
    [j \in 1..(Len(batches) - 1) |-> IF j < k THEN batches[j] ELSE batches[j + 1]]

\* the setInterval callback fires: it computes schedulesToUpdate from the array and,
\* when there is something to update, enters its commit loop; nothing keeps it from
\* firing while the loop of an earlier firing still awaits the store
TickBegins ==
    /\ Len(inflight) < MaxInFlight
    /\ \A k \in 1..Len(inflight) : inflight[k].by = "tick" => inflight[k].at < now
    /\ \E toUpdate \in {StatusUpdates(schedules, now)} :
        /\ Len(toUpdate) > 0
        /\ inflight' = Append(inflight, Batch("tick", now, toUpdate))
        /\ lastOp' = [op |-> "begin", by |-> "tick", now |-> now]
    /\ UNCHANGED <<schedules, now, error, moves, draggedItem, lineForm>>

\* optimizeDaySchedulesOp is called: it computes schedulesToUpdate from the array and
\* enters its commit loop, during which isLoading is set
OptimizeBegins ==
    /\ Len(inflight) < MaxInFlight
    /\ \A k \in 1..Len(inflight) : inflight[k].by # "optimizeDay"
    /\ \E targetDay \in Days :
        \E res \in {ComputePlacements(schedules, targetDay, now)} :
            /\ Len(res.schedulesToUpdate) > 0
            /\ inflight' = Append(inflight, Batch("optimizeDay", now, res.schedulesToUpdate))
            /\ lastOp' = [op |-> "begin", by |-> "optimizeDay", now |-> now]
    /\ UNCHANGED <<schedules, now, error, moves, draggedItem, lineForm>>

\* handleDragStart: the run is picked up and kept in draggedItem as it is now
DragStart ==
    /\ draggedItem = NoDrag
    /\ moves < MaxMoves
    /\ \E i \in 1..Len(schedules) :
        /\ CanStartDrag(schedules[i])
        /\ draggedItem' = schedules[i]
        /\ lastOp' = [op |-> "dragStart", now |-> now]
    /\ UNCHANGED <<schedules, now, error, moves, inflight, lineForm>>

\* handleDragOver finds the position valid for the run kept in draggedItem and
\* handleDrop calls updateSchedule, without awaiting it
Drop ==
    /\ draggedItem # NoDrag
    /\ Len(inflight) < MaxInFlight
    /\ \E targetLineId \in LineRefs : \E day \in Days : \E newStartTime \in ProposedStarts(day) :
        /\ checkDropValidity(draggedItem, targetLineId, newStartTime, day, now, schedules).valid
        /\ inflight' = Append(inflight,
                Batch("drop", now, <<UpdatedScheduleData(draggedItem, targetLineId, newStartTime)>>))
        /\ lastOp' = [op |-> "begin", by |-> "drop", now |-> now]
    /\ draggedItem' = NoDrag
    /\ moves' = moves + 1
    /\ UNCHANGED <<schedules, now, error, lineForm>>

\* the store answers for all the runs of a commit loop at once: it took them all, or
\* it refused them all
StoreAnswersForTheBatch ==
    \E k \in 1..Len(inflight) : \E taken \in BOOLEAN :
        /\ schedules' = CommitAll(schedules, inflight[k].queue,
                            IF taken THEN {} ELSE Ids(inflight[k].queue))
        /\ error' = IF taken THEN error ELSE "updateSchedule"
        /\ inflight' = WithoutBatch(inflight, k)
        /\ lastOp' = [op |-> "commit", by |-> inflight[k].by,
                      item |-> Head(inflight[k].queue), taken |-> taken]
        /\ UNCHANGED <<now, moves, draggedItem, lineForm>>

\* the store answers the updateScheduleOp call a commit loop awaits: it took the row,
\* and the array is updated, or it refused, and handleError records it; the loop goes
\* on to its next run, and ends after its last
StoreAnswers ==
    \E k \in 1..Len(inflight) : \E taken \in BOOLEAN :
        LET item == Head(inflight[k].queue)
            rest == Tail(inflight[k].queue)
        IN  /\ schedules' = CommitAll(schedules, <<item>>, IF taken THEN {} ELSE {item.id})
            /\ error' = IF taken THEN error ELSE "updateSchedule"
            /\ inflight' = IF rest = <<>> THEN WithoutBatch(inflight, k)
                           ELSE [inflight EXCEPT ![k].queue = rest]
            /\ lastOp' = [op |-> "commit", by |-> inflight[k].by, item |-> item,
                          taken |-> taken]
            /\ UNCHANGED <<now, moves, draggedItem, lineForm>>

NextAsync ==
    TickBegins \/ OptimizeBegins \/ DragStart \/ Drop \/ StoreAnswers \/ TimePasses

\* the arrays of at most MaxAsyncRuns runs
InitAsync == Init /\ Len(schedules) <= MaxAsyncRuns

SpecAsync == InitAsync /\ [][NextAsync]_vars

----------------------------------------------------------------------------
(* The commit loop of the status clock, one awaited call at a time *)

MaxTickRuns == 2

\* the page is closed or reloaded: the callbacks awaiting the store are gone with it,
\* and fetchInitialData loads the rows as the store holds them
PageReloads ==
    /\ inflight' = <<>>
    /\ draggedItem' = NoDrag
    /\ lineForm' = NoForm
    /\ lastOp' = [op |-> "reload", now |-> now]
    /\ UNCHANGED <<schedules, now, error, moves>>

NextTick == TickBegins \/ StoreAnswers \/ TimePasses \/ PageReloads

\* the arrays of at most MaxTickRuns runs
InitTick == Init /\ Len(schedules) <= MaxTickRuns

SpecTick == InitTick /\ [][NextTick]_vars

----------------------------------------------------------------------------
(* The pass over arrays whose runs refer to products and lines the catalog lacks *)

\* runs of a product or on a line that was deleted after they were scheduled, among
\* runs whose references resolve
UnresolvedTemplates ==
    { Run("PX", "L1", At(1, 10, 0, 0), At(1, 11, 0, 0), 1, Pendente),
      Run("PX", "LX", At(1, 9, 0, 0), At(1, 10, 0, 0), 1, Pendente),
      Run("PN", "LX", At(1, 8, 0, 0), At(1, 10, 0, 0), 16, Pendente),
      Run("PN", "L1", At(1, 8, 0, 0), At(1, 10, 0, 0), 16, Pendente),
      Run("PN", "L1", At(1, 10, 30, 0), At(1, 12, 30, 0), 16, Pendente),
      Run("PN", "L1", At(0, 10, 0, 0), At(0, 12, 0, 0), 16, Pendente) }

UnresolvedSchedules ==
    { [i \in DOMAIN s |-> WithId(s[i], i)] :
        s \in { t \in UNION { [1..n -> UnresolvedTemplates] : n \in 0..MaxRuns } :
                    IsSortedByStartTime(t) } }

InitUnresolved ==
    /\ schedules \in UnresolvedSchedules
    /\ now \in ClockReadings
    /\ error = "none"
    /\ lastOp = NoOp
    /\ moves = 0
    /\ draggedItem = NoDrag
    /\ inflight = <<>>
    /\ lineForm = NoForm

NextUnresolved == OptimizeDaySchedules

SpecUnresolved == InitUnresolved /\ [][NextUnresolved]_vars

----------------------------------------------------------------------------
(* The slot search of optimizeDaySchedulesOp as a function of its arguments *)

RECURSIVE SearchCursorsByQuarterHours(_, _, _, _, _, _, _)
RECURSIVE SearchCursors(_, _, _, _, _, _, _)

\* the cursor moved on by a quarter of an hour after a collision, in the place of the
\* end of the colliding slot
SearchCursorsByQuarterHours(attemptStartTime, effectiveStart, durationMinutes, slots, targetDay, lineOpEndMinutes, tried) ==
    LET trail == Append(tried, attemptStartTime)
    IN
    IF DayOf(attemptStartTime) # targetDay \/ MinutesOfDay(attemptStartTime) >= lineOpEndMinutes
    THEN trail
    ELSE LET proposedEndTime == attemptStartTime + durationMinutes
             hit == FirstCollision(slots, attemptStartTime, proposedEndTime)
         IN  IF EndsPastWindow(proposedEndTime, targetDay, lineOpEndMinutes) THEN trail
             ELSE IF hit # 0
             THEN SearchCursorsByQuarterHours(attemptStartTime + 15 * SecondsPerMinute,
                        effectiveStart, durationMinutes, slots, targetDay,
                        lineOpEndMinutes, trail)
             ELSE trail

\* the values attemptStartTime takes in the while (true) loop, in order, after `tried`:
\* the loop is entered with the first of them and left at the last
SearchCursors(attemptStartTime, effectiveStart, durationMinutes, slots, targetDay, lineOpEndMinutes, tried) ==
    LET trail == Append(tried, attemptStartTime)
    IN
    IF DayOf(attemptStartTime) # targetDay \/ MinutesOfDay(attemptStartTime) >= lineOpEndMinutes
    THEN trail
    ELSE LET proposedEndTime == attemptStartTime + durationMinutes
             hit == FirstCollision(slots, attemptStartTime, proposedEndTime)
         IN  IF EndsPastWindow(proposedEndTime, targetDay, lineOpEndMinutes) THEN trail
             ELSE IF hit # 0
             THEN SearchCursors(Max(slots[hit].endTime, effectiveStart), effectiveStart,
                                durationMinutes, slots, targetDay, lineOpEndMinutes, trail)
             ELSE trail

MaxSlots == 3

\* intervals that runs of one line can occupy on Monday; the last ends on Tuesday
SlotIntervals ==
    { [startTime |-> At(1, 8, 0, 0), endTime |-> At(1, 9, 0, 0)],
      [startTime |-> At(1, 8, 30, 0), endTime |-> At(1, 10, 0, 0)],
      [startTime |-> At(1, 9, 0, 0), endTime |-> At(1, 10, 0, 0)],
      [startTime |-> At(1, 10, 0, 0), endTime |-> At(1, 12, 0, 0)],
      [startTime |-> At(1, 12, 0, 0), endTime |-> At(1, 16, 30, 0)],
      [startTime |-> At(1, 16, 0, 0), endTime |-> At(1, 17, 0, 0)],
      [startTime |-> At(1, 23, 0, 0), endTime |-> At(2, 1, 0, 0)] }

\* currentAvailableSlots: up to MaxSlots intervals, kept sorted by start
SlotArrays ==
    { s \in UNION { [1..n -> SlotIntervals] : n \in 0..MaxSlots } : IsSortedByStartTime(s) }

\* lengths of runs, in seconds: 7.5 minutes, one, two and six hours
SearchDurations == {450, 3600, 7200, 21600}

\* search origins: the start of the operating window, and the current minute later on
SearchOrigins == { At(1, 8, 0, 0), At(1, 9, 15, 0), At(1, 16, 53, 0) }

\* the ends of the operating windows of the lines, in minutes of the day
WindowEnds == { timeToMinutes(<<17, 0>>), timeToMinutes(<<11, 52>>) }

\* one run of the while (true) loop of the slot search on Monday; nothing but the
\* record of it changes
RunSearch ==
    /\ lastOp.op = "none"
    /\ \E slots \in SlotArrays : \E durationMinutes \in SearchDurations :
        \E effectiveStart \in SearchOrigins : \E lineOpEndMinutes \in WindowEnds :
         lastOp' = [op |-> "search", slots |-> slots, durationMinutes |-> durationMinutes,
                    effectiveStart |-> effectiveStart, targetDay |-> 1,
                    lineOpEndMinutes |-> lineOpEndMinutes,
                    cursors |-> SearchCursors(effectiveStart, effectiveStart,
                                    durationMinutes, slots, 1, lineOpEndMinutes, <<>>),
                    found |-> SearchSlot(effectiveStart, effectiveStart, durationMinutes,
                                    slots, 1, lineOpEndMinutes)]
    /\ UNCHANGED <<schedules, now, error, moves, draggedItem, inflight, lineForm>>

NextSearch == RunSearch

InitSearch == Init /\ schedules = <<>>

SpecSearch == InitSearch /\ [][NextSearch]_vars

----------------------------------------------------------------------------
(* LineInfoForm: the weekly calendar of a line, edited and submitted *)

\* the value of a time input that was cleared: the empty string
NoTime == <<>>

\* timeErrors[dayIndex]: the message, or null (an index never set counts as null)
TimeErrorMessage == "Hora de fim deve ser apos a hora de inicio."
NoTimeError == "null"

\* start >= end on two "HH:MM" strings: compared character by character, which for
\* two digits of hours and two of minutes is hours first, then minutes
TimeStringAtLeast(start, end) ==
    start[1] > end[1] \/ (start[1] = end[1] /\ start[2] >= end[2])

\* the form as useState sets it up from initialData, or from the defaults
Form(name, operatingHours) ==
    [open |-> TRUE, name |-> name, operatingHours |-> operatingHours,
     timeErrors |-> [i \in 1..DaysPerWeek |-> NoTimeError]]

\* the day with the field changed as the handler changes it
DayToUpdate(day, field, value) ==
    IF field = "isActive" THEN [day EXCEPT !.isActive = value]
    ELSE IF field = "startTime" THEN [day EXCEPT !.startTime = value]
    ELSE IF field = "endTime" THEN [day EXCEPT !.endTime = value]
    ELSE day

\* the handler validating the times when a time changes only: a change of the active
\* flag clears the error of the day
handleOperatingHoursChangeClearingOnFlag(form, dayIndex, field, value) ==
    LET dayToUpdate == DayToUpdate(form.operatingHours[dayIndex], field, value)
        start == dayToUpdate.startTime
        end == dayToUpdate.endTime
    IN  [form EXCEPT
            !.operatingHours[dayIndex] = dayToUpdate,
            !.timeErrors[dayIndex] =
                IF field # "isActive" /\ dayToUpdate.isActive
                THEN IF start # NoTime /\ end # NoTime /\ TimeStringAtLeast(start, end)
                     THEN TimeErrorMessage ELSE NoTimeError
                ELSE NoTimeError]

\* handleOperatingHoursChange: the field of the day is set, and the error of the day
\* is set when the day is active with start >= end, cleared otherwise
handleOperatingHoursChange(form, dayIndex, field, value) ==
    LET dayToUpdate == DayToUpdate(form.operatingHours[dayIndex], field, value)
        start == dayToUpdate.startTime
        end == dayToUpdate.endTime
    IN  [form EXCEPT
            !.operatingHours[dayIndex] = dayToUpdate,
            !.timeErrors[dayIndex] =
                IF dayToUpdate.isActive
                THEN IF start # NoTime /\ end # NoTime /\ TimeStringAtLeast(start, end)
                     THEN TimeErrorMessage ELSE NoTimeError
                ELSE NoTimeError]

\* the browser does not fire onSubmit while an input marked `required` is empty: the two
\* time inputs of a day are rendered, and required, when the day is active
RequiredInputsFilled(form) ==
    \A i \in 1..DaysPerWeek :
        form.operatingHours[i].isActive =>
            form.operatingHours[i].startTime # NoTime /\ form.operatingHours[i].endTime # NoTime

\* Object.values(timeErrors).some(error => error !== null)
HasTimeErrors(form) == \E i \in 1..DaysPerWeek : form.timeErrors[i] # NoTimeError

\* the values the time inputs deliver: a time of the day, or nothing
TimeValues == {NoTime, <<8, 30>>, <<17, 0>>}

\* the names typed into the form
LineNames == {"", "L3"}

MaxEditedRow == 2

\* the rows of the form that are edited: Sunday's, Monday's
EditedRows == 1..MaxEditedRow

\* a calendar as the form saves it when Sunday was given an end before its start and
\* then made inactive
IdleSundayOperatingHours ==
    [DefaultOperatingHours EXCEPT ![1].startTime = <<17, 0>>, ![1].endTime = <<8, 30>>]

\* the calendars the form can be opened with: the defaults of a new line, the calendar
\* of a line of the catalog, and that of a line the form saved before
InitialForms ==
    {Form("", DefaultOperatingHours), Form("L3", IdleSundayOperatingHours)}
        \cup {Form(productionLines[l].name, productionLines[l].operatingHours) :
                l \in DOMAIN productionLines}

\* the modal with the form is opened, for a new line or for a line to edit
OpenLineForm ==
    /\ lineForm = NoForm
    /\ \E form \in InitialForms : lineForm' = form
    /\ lastOp' = [op |-> "openLineForm"]
    /\ UNCHANGED <<schedules, now, error, moves, draggedItem, inflight>>

\* the name is typed
ChangeLineName ==
    /\ lineForm.open
    /\ \E name \in LineNames : lineForm' = [lineForm EXCEPT !.name = name]
    /\ UNCHANGED <<schedules, now, error, lastOp, moves, draggedItem, inflight>>

\* the active flag, the start or the end of a day is changed
ChangeOperatingHours ==
    /\ lineForm.open
    /\ \E dayIndex \in EditedRows :
        \/ \E value \in BOOLEAN :
            lineForm' = handleOperatingHoursChange(lineForm, dayIndex, "isActive", value)
        \/ \E field \in {"startTime", "endTime"} : \E value \in TimeValues :
            lineForm' = handleOperatingHoursChange(lineForm, dayIndex, field, value)
    /\ UNCHANGED <<schedules, now, error, lastOp, moves, draggedItem, inflight>>

\* handleSubmit hands name and calendar to onSubmit, unless the name is missing or a
\* time error is set; the modal is closed after it
SubmitLineForm ==
    /\ lineForm.open
    /\ RequiredInputsFilled(lineForm)
    /\ lineForm.name # ""
    /\ ~HasTimeErrors(lineForm)
    /\ lastOp' = [op |-> "submitLine", name |-> lineForm.name,
                  operatingHours |-> lineForm.operatingHours]
    /\ lineForm' = NoForm
    /\ UNCHANGED <<schedules, now, error, moves, draggedItem, inflight>>

\* onClose: the form is dropped with what was typed into it
CloseLineForm ==
    /\ lineForm.open
    /\ lineForm' = NoForm
    /\ UNCHANGED <<schedules, now, error, lastOp, moves, draggedItem, inflight>>

NextForm ==
    OpenLineForm \/ ChangeLineName \/ ChangeOperatingHours \/ SubmitLineForm \/ CloseLineForm

InitForm == Init /\ schedules = <<>> /\ now = At(1, 9, 15, 30)

SpecForm == InitForm /\ [][NextForm]_vars

----------------------------------------------------------------------------
(* Vocabulary of the properties *)

\* a locked run: its product is a Top Seller, or it has left Pendente
LockedRun(r) == ClassificationOf(r.productId) = TopSeller \/ r.status # Pendente

\* a movable run: a Normal product, still Pendente
MovableRun(r) == ClassificationOf(r.productId) = Normal /\ r.status = Pendente

\* the half-open intervals [s1, e1) and [s2, e2) have an instant in common
IntervalsMeet(s1, e1, s2, e2) ==
    (IF s1 >= s2 THEN s1 ELSE s2) < (IF e1 <= e2 THEN e1 ELSE e2)

RunsMeet(a, b) == IntervalsMeet(a.startTime, a.endTime, b.startTime, b.endTime)

\* the line's calendar entries for the weekday of `day`
CalendarEntries(lineId, day) ==
    LET oh == productionLines[lineId].operatingHours
    IN  {oh[i] : i \in {k \in DOMAIN oh : oh[k].dayOfWeek = day % DaysPerWeek}}

\* the line is known and does not operate on the weekday of `day`
LineInactiveOn(lineId, day) ==
    lineId \in DOMAIN productionLines /\ \A e \in CalendarEntries(lineId, day) : ~e.isActive

\* the line is known and operates on the weekday of `day`
LineActiveOn(lineId, day) ==
    /\ lineId \in DOMAIN productionLines
    /\ CalendarEntries(lineId, day) # {}
    /\ \A e \in CalendarEntries(lineId, day) : e.isActive

\* the instants at which the operating window of an active line opens and closes on `day`
WindowStart(lineId, day) ==
    LET e == CHOOSE x \in CalendarEntries(lineId, day) : TRUE
    IN  At(day, e.startTime[1], e.startTime[2], 0)
WindowEnd(lineId, day) ==
    LET e == CHOOSE x \in CalendarEntries(lineId, day) : TRUE
    IN  At(day, e.endTime[1], e.endTime[2], 0)

\* [s, e] lies in the operating window of the line on `day`, both edges included
InsideWindow(s, e, lineId, day) ==
    LineActiveOn(lineId, day) /\ s >= WindowStart(lineId, day) /\ e <= WindowEnd(lineId, day)

\* the start of the minute the clock is in
CurrentMinute(t) == (t \div SecondsPerMinute) * SecondsPerMinute

OptimizeDone == lastOp.op = "optimizeDay"
ValidateDone == lastOp.op = "validateMove"

\* the run with this id as it is in memory now
InMemory(id) == ById(schedules, id)

\* the indices of the placements of the last pass
Placements == 1..Len(lastOp.schedulesToUpdate)
Placed(i) == lastOp.schedulesToUpdate[i]

----------------------------------------------------------------------------
(* C1 *)

\* C1, as claimed: after optimizeDay(d), with every commit taken by the store, any two
\* distinct movable runs (Normal, Pendente) of one line that start on day d have
\* intervals that do not overlap.
C1_Original ==
    (OptimizeDone /\ lastOp.failing = {}) =>
        \A i, j \in 1..Len(schedules) :
            (/\ i # j
             /\ MovableRun(schedules[i]) /\ MovableRun(schedules[j])
             /\ schedules[i].lineId = schedules[j].lineId
             /\ DayOf(schedules[i].startTime) = lastOp.targetDay
             /\ DayOf(schedules[j].startTime) = lastOp.targetDay)
            => ~RunsMeet(schedules[i], schedules[j])

\* C1, amended: any two distinct runs that one optimizeDay(d) pass placed on the same
\* line were given intervals that do not overlap; when the store takes every commit,
\* these runs hold exactly those intervals in memory after the pass.  (A movable run
\* the pass could not place stays where it was and may overlap others.)
C1_PlacedRunsDisjoint ==
    OptimizeDone =>
        /\ \A i, j \in Placements :
                (i # j /\ Placed(i).lineId = Placed(j).lineId)
                => ~RunsMeet(Placed(i), Placed(j))
        /\ lastOp.failing = {} => \A i \in Placements : InMemory(Placed(i).id) = Placed(i)

\* a pass, all commits taken, that placed two runs of one line whose intervals
\* overlapped before it
C1_Witness ==
    /\ OptimizeDone
    /\ lastOp.failing = {}
    /\ \E i, j \in Placements :
            /\ i # j
            /\ Placed(i).lineId = Placed(j).lineId
            /\ RunsMeet(ById(lastOp.before, Placed(i).id), ById(lastOp.before, Placed(j).id))

----------------------------------------------------------------------------
(* C2 *)

\* C2, as claimed: after optimizeDay(d), no run the pass placed has an interval that
\* overlaps a locked run (Top Seller, or status other than Pendente) of the same line.
C2_Original ==
    OptimizeDone =>
        \A i \in Placements : \A k \in 1..Len(schedules) :
            (/\ LockedRun(schedules[k])
             /\ schedules[k].id # Placed(i).id
             /\ schedules[k].lineId = Placed(i).lineId)
            => ~RunsMeet(Placed(i), schedules[k])

----------------------------------------------------------------------------
(* C3 *)

\* C3, as claimed: every placement of optimizeDay(d) starts at or after the start of
\* the line's operating window of the weekday of d and ends at or before its end.
C3_Original ==
    OptimizeDone =>
        \A i \in Placements :
            InsideWindow(Placed(i).startTime, Placed(i).endTime, Placed(i).lineId,
                         lastOp.targetDay)

----------------------------------------------------------------------------
(* C4 *)

\* the last pass repeated the pass before it: same day, same clock, nothing in between,
\* and the store took every commit of the first
RepeatedPass == OptimizeDone /\ lastOp.repeat

\* C4, as claimed, first half: the second of two passes in succession leaves every
\* run's start and end as the first pass left them.
C4_SecondPassMovesNothing ==
    RepeatedPass =>
        \A i \in 1..Len(lastOp.before) :
            /\ InMemory(lastOp.before[i].id).startTime = lastOp.before[i].startTime
            /\ InMemory(lastOp.before[i].id).endTime = lastOp.before[i].endTime

\* C4, as claimed, second half: the second pass reports a relocated count of 0.
C4_SecondPassReportsZero ==
    RepeatedPass => lastOp.optimizedCount = 0

----------------------------------------------------------------------------
(* C5 *)

\* C5: optimizeDay never changes the start, the end or the line of a locked run: a run
\* whose product is a Top Seller, or whose status is Em Progresso, Concluido or
\* Cancelado, is after the pass where it was before it.
C5_LockedRunsStay ==
    OptimizeDone =>
        \A i \in 1..Len(lastOp.before) :
            LockedRun(lastOp.before[i]) =>
                /\ InMemory(lastOp.before[i].id).startTime = lastOp.before[i].startTime
                /\ InMemory(lastOp.before[i].id).endTime = lastOp.before[i].endTime
                /\ InMemory(lastOp.before[i].id).lineId = lastOp.before[i].lineId

\* a pass that moved a run on a day on which a Top Seller and a run that has left
\* Pendente start on the same line
C5_Witness ==
    /\ OptimizeDone
    /\ \E i \in Placements :
            /\ Placed(i).id \notin lastOp.failing
            /\ ById(lastOp.before, Placed(i).id).startTime # Placed(i).startTime
            /\ \E a, b \in 1..Len(lastOp.before) :
                    /\ ClassificationOf(lastOp.before[a].productId) = TopSeller
                    /\ lastOp.before[b].status # Pendente
                    /\ lastOp.before[a].lineId = Placed(i).lineId
                    /\ lastOp.before[b].lineId = Placed(i).lineId
                    /\ DayOf(lastOp.before[a].startTime) = lastOp.targetDay
                    /\ DayOf(lastOp.before[b].startTime) = lastOp.targetDay

----------------------------------------------------------------------------
(* C6 *)

\* C6, as claimed: checkDropValidity rejects every proposed move of a run that is not
\* movable (its product is a Top Seller, or its status is not Pendente), whatever the
\* target line and the proposed start.
C6_Original ==
    (ValidateDone /\ LockedRun(lastOp.item)) => ~lastOp.verdict.valid

----------------------------------------------------------------------------
(* C7 *)

\* the search origin: the later of the start of the operating window and, on the
\* current calendar day, the current minute
SearchOrigin(lineId, day) ==
    IF day = DayOf(lastOp.now) /\ CurrentMinute(lastOp.now) > WindowStart(lineId, day)
    THEN CurrentMinute(lastOp.now) ELSE WindowStart(lineId, day)

\* the runs that block the i-th placement: the runs of its line the pass does not move
\* (locked, or treated as locked) and the runs placed before it in the same pass
BlockingRuns(i) ==
    { r \in {lastOp.before[k] : k \in 1..Len(lastOp.before)} :
        r.lineId = Placed(i).lineId /\ ~MovableRun(r) }
    \cup { Placed(j) : j \in {k \in Placements : k < i /\ Placed(k).lineId = Placed(i).lineId} }

\* a run of the length of the i-th placement may start at s
FeasibleStart(i, s) ==
    LET len == Placed(i).endTime - Placed(i).startTime
    IN  /\ s >= SearchOrigin(Placed(i).lineId, lastOp.targetDay)
        /\ s + len <= WindowEnd(Placed(i).lineId, lastOp.targetDay)
        /\ \A r \in BlockingRuns(i) : ~IntervalsMeet(s, s + len, r.startTime, r.endTime)

\* the earliest feasible start is the search origin or the end of a blocking run
CandidateStarts(i) ==
    {SearchOrigin(Placed(i).lineId, lastOp.targetDay)} \cup {r.endTime : r \in BlockingRuns(i)}

\* C7, as claimed: on each line the pass takes the movable runs in ascending order of
\* their current start and places each at the earliest start, at or after the search
\* origin, whose interval ends within the operating window and overlaps no locked run
\* and no run already placed in the same pass.
C7_Original ==
    OptimizeDone =>
        \A i \in Placements :
            /\ LineActiveOn(Placed(i).lineId, lastOp.targetDay)
            /\ FeasibleStart(i, Placed(i).startTime)
            /\ \A c \in CandidateStarts(i) : c < Placed(i).startTime => ~FeasibleStart(i, c)
            /\ \A j \in Placements :
                    (j < i /\ Placed(j).lineId = Placed(i).lineId) =>
                        ById(lastOp.before, Placed(j).id).startTime
                            <= ById(lastOp.before, Placed(i).id).startTime

----------------------------------------------------------------------------
(* C8 *)

\* the kinds of the lines of `details` that report a run left where it was
UnoptimizedKinds ==
    {"kept", "unexpected", "productNotFound", "invalidDuration", "lineInactive",
     "pastEndOfOperation", "notPlaced"}

\* how many lines of `details` report the run `id` as left where it was
UnoptimizedEntries(id) ==
    Cardinality({k \in 1..Len(lastOp.details) :
                    lastOp.details[k].ref = id /\ lastOp.details[k].kind \in UnoptimizedKinds})

\* the movable runs that start on the target day on a line the catalog lacks: they have
\* no line of their own in `details` and are counted in one sum
MovableOnUnknownLine ==
    {k \in 1..Len(lastOp.before) :
        /\ DayOf(lastOp.before[k].startTime) = lastOp.targetDay
        /\ lastOp.before[k].lineId \notin DOMAIN productionLines
        /\ MovableRun(lastOp.before[k])}

\* C8: for a line whose calendar is inactive on the weekday of the target day,
\* checkDropValidity rejects every proposed move onto that line, and optimizeDay places
\* no run on it: each run starting there that day stays where it was, and each movable
\* one is counted as unoptimized (one line of `details`, one unit of unoptimizedCount).
C8_InactiveLine ==
    /\ (ValidateDone /\ LineInactiveOn(lastOp.targetLineId, lastOp.day))
            => ~lastOp.verdict.valid
    /\ OptimizeDone =>
        /\ \A i \in Placements : ~LineInactiveOn(Placed(i).lineId, lastOp.targetDay)
        /\ \A k \in 1..Len(lastOp.before) :
                (/\ DayOf(lastOp.before[k].startTime) = lastOp.targetDay
                 /\ LineInactiveOn(lastOp.before[k].lineId, lastOp.targetDay))
                => /\ InMemory(lastOp.before[k].id) = lastOp.before[k]
                   /\ MovableRun(lastOp.before[k])
                        => UnoptimizedEntries(lastOp.before[k].id) = 1
        /\ lastOp.unoptimizedCount
             = Cardinality({k \in 1..Len(lastOp.details) :
                                lastOp.details[k].kind \in UnoptimizedKinds})
               + Cardinality(MovableOnUnknownLine)

\* a pass over a day on which a line is inactive and holds a movable run, which the
\* pass reports as left alone because the line does not work that day
C8_Witness ==
    /\ OptimizeDone
    /\ lastOp.unoptimizedCount >= 1
    /\ \E k \in 1..Len(lastOp.before) :
            /\ DayOf(lastOp.before[k].startTime) = lastOp.targetDay
            /\ LineInactiveOn(lastOp.before[k].lineId, lastOp.targetDay)
            /\ MovableRun(lastOp.before[k])
            /\ \E d \in 1..Len(lastOp.details) :
                    lastOp.details[d].ref = lastOp.before[k].id
                    /\ lastOp.details[d].kind = "lineInactive"

\* a move of a movable run onto a line that does not work on the chart's day, rejected
\* for that reason
C8_WitnessValidate ==
    /\ ValidateDone
    /\ MovableRun(lastOp.item)
    /\ LineInactiveOn(lastOp.targetLineId, lastOp.day)
    /\ lastOp.verdict = Verdict(FALSE, "lineInactive")

----------------------------------------------------------------------------
(* C9 *)

\* the end of the proposed interval: the run keeps its length
ProposedEnd == lastOp.newStartTime + (lastOp.item.endTime - lastOp.item.startTime)

\* C9, as claimed: a move of a movable run onto a line that works that day passes the
\* operating-hours check iff proposedStart >= window start and proposedEnd <= window
\* end on the chart's day, both edges included.
C9_Original ==
    (ValidateDone /\ MovableRun(lastOp.item) /\ LineActiveOn(lastOp.targetLineId, lastOp.day))
    => ((lastOp.verdict.message # "outsideOperatingHours")
            <=> InsideWindow(lastOp.newStartTime, ProposedEnd, lastOp.targetLineId, lastOp.day))

----------------------------------------------------------------------------
(* C10 *)

\* C10, as claimed: on the chart of the current day, every move of a movable run whose
\* proposedStart lies inside the operating window but strictly before the current
\* minute is rejected with the past-time reason.
C10_Original ==
    (/\ ValidateDone
     /\ MovableRun(lastOp.item)
     /\ lastOp.day = DayOf(lastOp.now)
     /\ LineActiveOn(lastOp.targetLineId, lastOp.day)
     /\ lastOp.newStartTime >= WindowStart(lastOp.targetLineId, lastOp.day)
     /\ lastOp.newStartTime <= WindowEnd(lastOp.targetLineId, lastOp.day)
     /\ lastOp.newStartTime < CurrentMinute(lastOp.now))
    => lastOp.verdict = Verdict(FALSE, "pastTime")

\* C10, amended: on the chart of the current day, every move of a movable run whose
\* proposed interval lies inside the operating window of the target line (start and
\* end both) and whose proposedStart is strictly before the current minute is rejected
\* with the past-time reason; a proposedStart at or after the start of the current
\* minute is never rejected with that reason, and on the chart of any other day no
\* move is.
C10_PastTime ==
    (ValidateDone /\ MovableRun(lastOp.item)) =>
        /\ (/\ lastOp.day = DayOf(lastOp.now)
            /\ InsideWindow(lastOp.newStartTime, ProposedEnd, lastOp.targetLineId, lastOp.day)
            /\ lastOp.newStartTime < CurrentMinute(lastOp.now))
           => lastOp.verdict = Verdict(FALSE, "pastTime")
        /\ lastOp.newStartTime >= CurrentMinute(lastOp.now)
           => lastOp.verdict.message # "pastTime"
        /\ lastOp.day # DayOf(lastOp.now)
           => lastOp.verdict.message # "pastTime"

\* a move of a movable run proposed a quarter of an hour before the current minute,
\* inside the operating window, and rejected for it
C10_Witness ==
    /\ ValidateDone
    /\ MovableRun(lastOp.item)
    /\ lastOp.day = DayOf(lastOp.now)
    /\ InsideWindow(lastOp.newStartTime, ProposedEnd, lastOp.targetLineId, lastOp.day)
    /\ lastOp.newStartTime + 15 * SecondsPerMinute = CurrentMinute(lastOp.now)
    /\ lastOp.verdict = Verdict(FALSE, "pastTime")

----------------------------------------------------------------------------
(* C11 *)

\* the other runs that start on the chart's day on the target line and whose interval
\* has an instant in common with the proposed one
CollidingRuns ==
    { r \in {schedules[k] : k \in 1..Len(schedules)} :
        /\ r.id # lastOp.item.id
        /\ r.lineId = lastOp.targetLineId
        /\ DayOf(r.startTime) = lastOp.day
        /\ IntervalsMeet(lastOp.newStartTime, ProposedEnd, r.startTime, r.endTime) }

\* C11, as claimed: checkDropValidity rejects every move whose interval
\* [proposedStart, proposedEnd) overlaps another run of the target line that day, so
\* an accepted move overlaps no other run there; the moved run's own interval is never
\* counted as a conflict.
C11_Original ==
    (ValidateDone /\ lastOp.verdict.valid) => CollidingRuns = {}

----------------------------------------------------------------------------
(* C12 *)

ConflictMessages == {"conflictTopSeller", "conflictNormal"}

\* C12, as claimed: when checkDropValidity rejects for a collision, a collision with
\* locked runs (Top Seller, or any run that has left Pendente) gives the Top Seller
\* reason and a collision with movable runs (Normal, Pendente) gives the Normal reason.
C12_Original ==
    (ValidateDone /\ lastOp.verdict.message \in ConflictMessages /\ CollidingRuns # {}) =>
        /\ (\A r \in CollidingRuns : LockedRun(r))
                => lastOp.verdict.message = "conflictTopSeller"
        /\ (\A r \in CollidingRuns : MovableRun(r))
                => lastOp.verdict.message = "conflictNormal"

----------------------------------------------------------------------------
(* C13 *)

TickDone == lastOp.op = "tick"

\* the updates the last tick proposed for the run with this id
ProposedFor(id) ==
    { lastOp.schedulesToUpdate[k] : k \in { j \in Placements : Placed(j).id = id } }

\* C13: a tick at `now` proposes Em Progresso for a run iff the run is Pendente and
\* start <= now < end, proposes Concluido iff the run is Em Progresso and now >= end,
\* and proposes nothing for any other run; a proposal changes the status only, and each
\* run is afterwards as proposed when the store took its commit and as before otherwise.
C13_TickTransitions ==
    TickDone =>
        \A k \in 1..Len(lastOp.before) :
            LET r == lastOp.before[k]
                begins == r.status = Pendente /\ r.startTime <= lastOp.now
                                              /\ lastOp.now < r.endTime
                ends == r.status = EmProgresso /\ lastOp.now >= r.endTime
                expected == IF begins THEN {[r EXCEPT !.status = EmProgresso]}
                            ELSE IF ends THEN {[r EXCEPT !.status = Concluido]}
                            ELSE {}
            IN  /\ ProposedFor(r.id) = expected
                /\ InMemory(r.id) \in (IF r.id \in lastOp.failing THEN {r}
                                       ELSE IF expected = {} THEN {r} ELSE expected)

\* a tick at the very instant one Pendente run starts and one Em Progresso run ends,
\* with a Pendente run whose end has passed left alone
C13_Witness ==
    /\ TickDone
    /\ lastOp.failing = {}
    /\ \E a, b, c \in 1..Len(lastOp.before) :
            /\ lastOp.before[a].status = Pendente
            /\ lastOp.before[a].startTime = lastOp.now
            /\ InMemory(lastOp.before[a].id).status = EmProgresso
            /\ lastOp.before[b].status = EmProgresso
            /\ lastOp.before[b].endTime = lastOp.now
            /\ InMemory(lastOp.before[b].id).status = Concluido
            /\ lastOp.before[c].status = Pendente
            /\ lastOp.before[c].endTime <= lastOp.now
            /\ InMemory(lastOp.before[c].id).status = Pendente

----------------------------------------------------------------------------
(* C14 *)

\* one step forward along Pendente -> Em Progresso -> Concluido
OneStepForward(from, to) ==
    \/ from = Pendente /\ to = EmProgresso
    \/ from = EmProgresso /\ to = Concluido

\* C14: under any sequence of ticks, every step leaves each run's status as it was or
\* moves it one step forward along Pendente -> Em Progresso -> Concluido; a Concluido
\* or Cancelado run is never changed, and no run becomes Cancelado.
C14_StatusMonotonic ==
    [][\A k \in 1..Len(schedules) :
            LET before == schedules[k]
                after == ById(schedules', before.id)
            IN  /\ after.status = before.status \/ OneStepForward(before.status, after.status)
                /\ before.status \in {Concluido, Cancelado} => after = before
                /\ after.status = Cancelado => before.status = Cancelado]_vars

\* a tick that took a run from Em Progresso to Concluido, next to a Cancelado run and
\* a Pendente run whose ends had both passed and which it left alone
C14_Witness ==
    /\ TickDone
    /\ \E a, b, c \in 1..Len(lastOp.before) :
            /\ lastOp.before[a].status = EmProgresso
            /\ InMemory(lastOp.before[a].id).status = Concluido
            /\ lastOp.before[b].status = Cancelado
            /\ lastOp.before[b].endTime <= lastOp.now
            /\ lastOp.before[c].status = Pendente
            /\ lastOp.before[c].endTime <= lastOp.now
            /\ InMemory(lastOp.before[c].id).status = Pendente

----------------------------------------------------------------------------
(* C15 *)

\* the last operation was one that commits runs: a pass, a tick or a drop
CommitDone == lastOp.op \in {"optimizeDay", "tick", "drop"}

\* the ids of the commits the operation issued, one per updateScheduleOp call
IssuedCommits == [k \in Placements |-> Placed(k).id]

\* C15: when the store refuses the commit of a run, in a pass, a tick or a manual move,
\* the run in memory is not advanced: it is afterwards exactly as it was before the
\* operation (start, end, line, status); the failure is recorded in the provider's
\* error state; and the operation issues the commit of each run once, with no retry.
\* A run whose commit the store took is afterwards as committed.
C15_FailedCommitKeepsRun ==
    CommitDone =>
        /\ \A id \in lastOp.failing : InMemory(id) = ById(lastOp.before, id)
        /\ lastOp.failing # {} => error = "updateSchedule"
        /\ \A j, k \in Placements : IssuedCommits[j] = IssuedCommits[k] => j = k
        /\ \A k \in Placements :
                Placed(k).id \notin lastOp.failing => InMemory(Placed(k).id) = Placed(k)

\* a pass, after a manual move, in which the store refused the commit of one run whose
\* position the pass had changed, and took the commit of another
C15_Witness ==
    /\ OptimizeDone
    /\ moves = 1
    /\ error = "updateSchedule"
    /\ \E j, k \in Placements :
            /\ Placed(j).id \in lastOp.failing
            /\ Placed(j).startTime # ById(lastOp.before, Placed(j).id).startTime
            /\ Placed(k).id \notin lastOp.failing

\* a tick in which the store refused the commit of a transition
C15_WitnessTick ==
    /\ TickDone
    /\ \E k \in Placements :
            /\ Placed(k).id \in lastOp.failing
            /\ InMemory(Placed(k).id).status = Pendente
            /\ Placed(k).status = EmProgresso

\* a manual move, valid where it was dropped, whose commit the store refused
C15_WitnessDrop ==
    /\ lastOp.op = "drop"
    /\ lastOp.failing # {}
    /\ Placed(1).startTime # ById(lastOp.before, Placed(1).id).startTime
    /\ Placed(1).lineId # ById(lastOp.before, Placed(1).id).lineId

----------------------------------------------------------------------------
(* C16 *)

DurationDone == lastOp.op = "duration"

\* the product's per-unit time for an equipment id: 0 when its profile lacks the id
PerUnitTime(product, eqId) ==
    LET entries == { product.processingTimes[i] : i \in DOMAIN product.processingTimes }
        hits == { e \in entries : e.equipmentId = eqId }
    IN  IF hits = {} THEN 0 ELSE (CHOOSE e \in hits : TRUE).timePerUnitMinutes

RECURSIVE SumOfPerUnitTimes(_, _)
\* the sum of the product's per-unit times over a set of equipment ids
SumOfPerUnitTimes(product, ids) ==
    IF ids = {} THEN 0
    ELSE LET x == CHOOSE y \in ids : TRUE
         IN  PerUnitTime(product, x) + SumOfPerUnitTimes(product, ids \ {x})

\* the equipment a line holds, the order forgotten
EquipmentOf(line) == { line.equipmentIds[i] : i \in DOMAIN line.equipmentIds }

\* C16: duration(product, line, q) is q times the sum, over the equipment ids of the
\* line, of the product's per-unit time for the id (0 when the profile lacks it), and 0
\* when the line has no equipment, the product no profile, or q <= 0; it depends on
\* the set of the line's equipment ids only, not on their order.
C16_DurationIsSum ==
    DurationDone =>
        lastOp.result =
            IF \/ lastOp.quantity <= 0
               \/ lastOp.product.processingTimes = <<>>
               \/ lastOp.line.equipmentIds = <<>>
            THEN 0
            ELSE lastOp.quantity * SumOfPerUnitTimes(lastOp.product, EquipmentOf(lastOp.line))

\* a duration over a line of three pieces of equipment whose first is not in the
\* product's profile and whose last is, for more than one unit
C16_Witness ==
    /\ DurationDone
    /\ lastOp.quantity > 1
    /\ Len(lastOp.line.equipmentIds) = 3
    /\ PerUnitTime(lastOp.product, lastOp.line.equipmentIds[1]) = 0
    /\ PerUnitTime(lastOp.product, lastOp.line.equipmentIds[3]) > 0
    /\ lastOp.result > 0

----------------------------------------------------------------------------
(* C17 *)

\* C17: for every product, line and quantity (zero and negative quantities, empty
\* profiles and empty equipment sequences included) the duration is a number >= 0.
C17_DurationNonNegative ==
    DurationDone => lastOp.result \in Nat

\* a duration asked for a negative quantity of a product the line can make
C17_Witness ==
    /\ DurationDone
    /\ lastOp.quantity < 0
    /\ SumOfPerUnitTimes(lastOp.product, EquipmentOf(lastOp.line)) > 0
    /\ lastOp.result = 0

----------------------------------------------------------------------------
(* C18 *)

\* the duration of another quantity of the same product on the same line
DurationOf(quantity) ==
    calculateProductDurationOnLine(lastOp.product, lastOp.line, quantity)

\* C18: the duration is linear in the quantity: for positive q1, q2 and k,
\* duration(q1 + q2) = duration(q1) + duration(q2) and duration(k * q1) = k * duration(q1).
C18_DurationLinear ==
    (DurationDone /\ lastOp.quantity > 0) =>
        /\ \A q1, q2 \in 1..MaxQuantity :
                q1 + q2 = lastOp.quantity => lastOp.result = DurationOf(q1) + DurationOf(q2)
        /\ \A k, q1 \in 1..MaxQuantity :
                k * q1 = lastOp.quantity => lastOp.result = k * DurationOf(q1)

\* the duration of four units, which is two times that of two and the sum of those of
\* one and three, of a product with a fractional number of minutes per unit
C18_Witness ==
    /\ DurationDone
    /\ lastOp.quantity = 4
    /\ DurationOf(1) % SecondsPerMinute # 0
    /\ lastOp.result = 2 * DurationOf(2)
    /\ lastOp.result = DurationOf(1) + DurationOf(3)

----------------------------------------------------------------------------
(* C19 *)

\* the slots the i-th placement was tested against: the runs of its line that start
\* on the target day and that the pass does not move, and the runs placed before it
OccupiedSlots(i) ==
    { r \in {lastOp.before[k] : k \in 1..Len(lastOp.before)} :
        /\ r.lineId = Placed(i).lineId
        /\ DayOf(r.startTime) = lastOp.targetDay
        /\ ~MovableRun(r) }
    \cup { Placed(j) : j \in {k \in Placements : k < i /\ Placed(k).lineId = Placed(i).lineId} }

PlacedLength(i) == Placed(i).endTime - Placed(i).startTime

\* the half-open interval of the i-th placement, moved to start at s, meets no slot
FreeOfSlots(i, s) ==
    \A r \in OccupiedSlots(i) : ~IntervalsMeet(s, s + PlacedLength(i), r.startTime, r.endTime)

\* the starts the search can try before the one it took: the search origin and the
\* ends of the slots, as far as the interval still ends, to the minute, in the window
EarlierStarts(i) ==
    { c \in {SearchOrigin(Placed(i).lineId, lastOp.targetDay)}
                \cup {r.endTime : r \in OccupiedSlots(i)} :
        /\ c >= SearchOrigin(Placed(i).lineId, lastOp.targetDay)
        /\ c < Placed(i).startTime
        /\ DayOf(c + PlacedLength(i)) = lastOp.targetDay
        /\ CurrentMinute(c + PlacedLength(i))
                <= WindowEnd(Placed(i).lineId, lastOp.targetDay) }

\* the runs checkDropValidity tests the proposal against
TestedRuns ==
    { r \in {schedules[k] : k \in 1..Len(schedules)} :
        /\ r.id # lastOp.item.id
        /\ r.lineId = lastOp.targetLineId
        /\ DayOf(r.startTime) = lastOp.day
        /\ r.productId \in DOMAIN products }

\* C19: the conflict test is the overlap of half-open intervals, candidateStart <
\* existingEnd and candidateEnd > existingStart, in the optimizer and in
\* checkDropValidity alike.  The optimizer takes a start iff the interval meets none of
\* its slots (every earlier start it can try meets one), and checkDropValidity reports
\* a conflict iff the proposal meets a run it tests; an interval that starts the instant
\* a run ends, or ends the instant a run starts, is no conflict.
C19_HalfOpenOverlap ==
    /\ OptimizeDone =>
            \A i \in Placements :
                /\ FreeOfSlots(i, Placed(i).startTime)
                /\ \A c \in EarlierStarts(i) : ~FreeOfSlots(i, c)
    /\ (ValidateDone /\ (lastOp.verdict.valid \/ lastOp.verdict.message \in ConflictMessages))
            => (lastOp.verdict.message \in ConflictMessages
                    <=> \E r \in TestedRuns :
                            IntervalsMeet(lastOp.newStartTime, ProposedEnd,
                                          r.startTime, r.endTime))

\* a pass that placed one run to end the instant a locked run starts and another to
\* start the instant that locked run ends
C19_Witness ==
    /\ OptimizeDone
    /\ \E i, j \in Placements : \E r \in OccupiedSlots(i) \cap OccupiedSlots(j) :
            /\ LockedRun(r)
            /\ r.startTime = Placed(i).endTime
            /\ r.endTime = Placed(j).startTime

\* a move accepted although the proposal ends the instant one run of the line starts
\* and starts the instant another ends
C19_WitnessValidate ==
    /\ ValidateDone
    /\ lastOp.verdict.valid
    /\ \E a, b \in TestedRuns :
            /\ a.endTime = lastOp.newStartTime
            /\ b.startTime = ProposedEnd

----------------------------------------------------------------------------
(* C20 *)

\* the runs other than the moved one, in the order the store holds them
OtherRuns == SelectSeq(schedules, LAMBDA r : r.id # lastOp.item.id)

\* what the optimizer's partition makes of the other runs that start on the chart's
\* day on the target line
OptimizerPartition ==
    PartitionLine(SelectSeq(SchedulesStartingOnTargetDay(OtherRuns, lastOp.day),
                            LAMBDA r : r.lineId = lastOp.targetLineId),
                  [fixed |-> <<>>, normalPending |-> <<>>,
                   unoptimizedCount |-> 0, details |-> <<>>])

\* the optimizer's occupied-slot check finds the proposed interval colliding
CollidesInOptimizer ==
    FirstCollision(SortByStartTime(OptimizerPartition.fixed),
                   lastOp.newStartTime, ProposedEnd) # 0

\* C20, as claimed: for the same line, day and set of runs (here: runs the optimizer
\* keeps in place, so that all of them are occupied slots), the optimizer's
\* occupied-slot check treats a candidate interval as colliding iff checkDropValidity
\* rejects that interval for a collision; runs whose product cannot be resolved block
\* in both.
C20_Original ==
    (/\ ValidateDone
     /\ lastOp.verdict.valid \/ lastOp.verdict.message \in ConflictMessages
     /\ OptimizerPartition.normalPending = <<>>)
        => (CollidesInOptimizer <=> lastOp.verdict.message \in ConflictMessages)

----------------------------------------------------------------------------
(* C21 *)

\* the ids of the runs in an array
RunIds(arr) == { arr[k].id : k \in 1..Len(arr) }

\* C21: no pass, tick or manual move creates or deletes a run, whether the store takes
\* or refuses its commits: every step leaves the array with as many runs as before and
\* with the same set of ids.
C21_RunIdsPreserved ==
    [][Len(schedules') = Len(schedules) /\ RunIds(schedules') = RunIds(schedules)]_vars

\* a pass that followed a manual move, in which the store took the commit of one run
\* and refused that of another, with the ids in memory those from before the pass
C21_Witness ==
    /\ OptimizeDone
    /\ moves = 1
    /\ lastOp.before # schedules
    /\ \E j, k \in Placements :
            Placed(j).id \in lastOp.failing /\ Placed(k).id \notin lastOp.failing
    /\ RunIds(schedules) = RunIds(lastOp.before)

----------------------------------------------------------------------------
(* C22 *)

\* the run of the array before the pass, and the run with its id after the pass
BeforePass(k) == lastOp.before[k]
AfterPass(k) == InMemory(lastOp.before[k].id)

\* C22: a pass over day d changes only the start and the end of movable runs that
\* start on d: every run that does not start on d, and every run that is not movable
\* (locked runs among them), is after the pass exactly as before it, and every run
\* keeps its id, product, line, quantity, status and note.
C22_PassFrame ==
    OptimizeDone =>
        \A k \in 1..Len(lastOp.before) :
            /\ (DayOf(BeforePass(k).startTime) # lastOp.targetDay \/ ~MovableRun(BeforePass(k)))
                    => AfterPass(k) = BeforePass(k)
            /\ AfterPass(k).id = BeforePass(k).id
            /\ AfterPass(k).productId = BeforePass(k).productId
            /\ AfterPass(k).lineId = BeforePass(k).lineId
            /\ AfterPass(k).quantity = BeforePass(k).quantity
            /\ AfterPass(k).status = BeforePass(k).status
            /\ AfterPass(k).notes = BeforePass(k).notes

\* a pass that relocated a run of the day while the array held a movable run of the
\* same line that starts on another day and a locked run that starts on the day
C22_Witness ==
    /\ OptimizeDone
    /\ \E i, j, k \in 1..Len(lastOp.before) :
            /\ AfterPass(i).startTime # BeforePass(i).startTime
            /\ AfterPass(i).endTime # BeforePass(i).endTime
            /\ MovableRun(BeforePass(j))
            /\ BeforePass(j).lineId = BeforePass(i).lineId
            /\ DayOf(BeforePass(j).startTime) # lastOp.targetDay
            /\ LockedRun(BeforePass(k))
            /\ DayOf(BeforePass(k).startTime) = lastOp.targetDay

----------------------------------------------------------------------------
(* C23 *)

\* the step is the store taking a commit issued by the commit loop of `by`
CommitTakenBy(by) ==
    /\ lastOp' # lastOp
    /\ lastOp'.op = "commit"
    /\ lastOp'.by = by
    /\ lastOp'.taken

\* the run with this id differs after the step from before it in its status at most
OnlyStatusChanges(id) ==
    ById(schedules', id) = [ById(schedules, id) EXCEPT !.status = ById(schedules', id).status]

\* C23, as claimed: a status transition committed by the clock changes the status
\* only: right after the commit the run's start, end, line, product, quantity and note
\* are those the store held right before it, also when a relocation of the run was
\* committed after the tick computed its transitions.
C23_Original ==
    [][CommitTakenBy("tick") => \A id \in RunIds(schedules) : OnlyStatusChanges(id)]_vars

----------------------------------------------------------------------------
(* C24 *)

\* the step is an evaluation of checkDropValidity
ValidateStep == lastOp' # lastOp /\ lastOp'.op = "validateMove"

\* C24: evaluating checkDropValidity for any run, target line and start, accepted or
\* rejected, changes nothing: the array of runs and the provider's error state are
\* after the evaluation what they were before it.  (The lines and the products are
\* fixed throughout.)
C24_ValidateMutatesNothing ==
    [][ValidateStep => schedules' = schedules /\ error' = error]_vars

\* a move to another line and another start was accepted, and the run in memory is
\* still on its line at its start
C24_Witness ==
    /\ ValidateDone
    /\ lastOp.verdict.valid
    /\ lastOp.targetLineId # lastOp.item.lineId
    /\ lastOp.newStartTime # lastOp.item.startTime
    /\ InMemory(lastOp.item.id) = lastOp.item

\* a move was rejected for a conflict, and the run in memory is as it was
C24_WitnessRejected ==
    /\ ValidateDone
    /\ lastOp.verdict.message \in ConflictMessages
    /\ InMemory(lastOp.item.id) = lastOp.item

----------------------------------------------------------------------------
(* C25 *)

\* the runs that start on the target day and refer to a product or a line that the
\* catalog lacks
UnresolvedRuns ==
    {k \in 1..Len(lastOp.before) :
        /\ DayOf(BeforePass(k).startTime) = lastOp.targetDay
        /\ \/ BeforePass(k).productId \notin DOMAIN products
           \/ BeforePass(k).lineId \notin DOMAIN productionLines}

\* a line of `details` reports the unresolved reference of the run: its line as not
\* found, or the run itself as kept for its unknown product
ReportedUnresolved(k) ==
    \E d \in 1..Len(lastOp.details) :
        \/ /\ lastOp.details[d].kind = "lineNotFound"
           /\ lastOp.details[d].lineId = BeforePass(k).lineId
        \/ /\ lastOp.details[d].kind \in {"unexpected", "productNotFound"}
           /\ lastOp.details[d].ref = BeforePass(k).id

\* C25, as claimed: when runs that start on the target day refer to a product or a
\* line missing from the snapshot, the pass returns its result all the same, and every
\* such run is left where it was, blocks its interval for the placements on its line
\* when the line resolves, is counted in unoptimizedCount, and has its unresolved
\* reference reported in the trace.
C25_Original ==
    OptimizeDone =>
        /\ \A k \in UnresolvedRuns :
            /\ AfterPass(k) = BeforePass(k)
            /\ \A i \in Placements :
                    Placed(i).lineId = BeforePass(k).lineId => ~RunsMeet(Placed(i), BeforePass(k))
            /\ ReportedUnresolved(k)
        /\ lastOp.unoptimizedCount >= Cardinality(UnresolvedRuns)

----------------------------------------------------------------------------
(* C26 *)

\* the movable runs that start on the target day
MovableOfTheDay ==
    {k \in 1..Len(lastOp.before) :
        DayOf(BeforePass(k).startTime) = lastOp.targetDay /\ MovableRun(BeforePass(k))}

\* the lines of `details` that say there is nothing to optimize: no Normal product
\* that is Pendente, or no product at all, scheduled for the day
NothingToOptimizeKinds == {"noNormalPendente", "noSchedules"}

\* C26, as claimed: whenever no movable run starts on the target day, be it a day of
\* locked runs only or a day without runs, the trace the pass returns has an entry that
\* says so.
C26_Original ==
    (OptimizeDone /\ MovableOfTheDay = {}) =>
        \E d \in 1..Len(lastOp.details) : lastOp.details[d].kind \in NothingToOptimizeKinds

----------------------------------------------------------------------------
(* C27 *)

\* the commit loops of clock ticks that have begun and not yet ended
TicksCommitting == {k \in 1..Len(inflight) : inflight[k].by = "tick"}

\* C27, as claimed: clock ticks are serialized: a tick does not begin while the commit
\* loop of an earlier tick is still in progress, so at no time are two ticks committing.
C27_Original == Cardinality(TicksCommitting) <= 1

----------------------------------------------------------------------------
(* C28 *)

\* the run with this id is after the step on the line, at the start and at the end
\* where it was before the step
StaysInPlace(id) ==
    /\ ById(schedules', id).startTime = ById(schedules, id).startTime
    /\ ById(schedules', id).endTime = ById(schedules, id).endTime
    /\ ById(schedules', id).lineId = ById(schedules, id).lineId

\* C28, as claimed: however ticks, passes and manual moves interleave (and whatever the
\* user cancels in between), no commit made by a pass or by a manual move changes the
\* start, the end or the line of a run whose status in the store at the time of the
\* commit is not Pendente.
C28_Original ==
    [][(CommitTakenBy("optimizeDay") \/ CommitTakenBy("drop")) =>
            \A id \in RunIds(schedules) :
                ById(schedules, id).status # Pendente => StaysInPlace(id)]_vars

----------------------------------------------------------------------------
(* C29 *)

\* C29, as claimed: however ticks, passes and manual moves interleave (and whatever the
\* user cancels in between), Concluido and Cancelado are terminal: a commit made by a
\* tick, a pass or a manual move leaves the status of a run that is Concluido or
\* Cancelado in the store as it is.
C29_Original ==
    [][\A by \in {"tick", "optimizeDay", "drop"} :
            CommitTakenBy(by) =>
                \A id \in RunIds(schedules) :
                    ById(schedules, id).status \in {Concluido, Cancelado}
                        => ById(schedules', id).status = ById(schedules, id).status]_vars

----------------------------------------------------------------------------
(* C30 *)

\* the pass is over the calendar day the clock is in
PassOverToday == lastOp.targetDay = DayOf(lastOp.now)

\* C30: when the target day is the current calendar day, every placement of the pass
\* starts at or after `now` truncated to the minute, and the search begins at the later
\* of the start of the operating window and the current minute; on any other day it
\* begins at the start of the operating window.  The origin shows in a placement that
\* had no occupied slot to pass: it starts exactly there.
C30_SearchOrigin ==
    OptimizeDone =>
        \A i \in Placements :
            LET opens == WindowStart(Placed(i).lineId, lastOp.targetDay)
                minute == CurrentMinute(lastOp.now)
            IN  /\ Placed(i).startTime >= opens
                /\ PassOverToday => Placed(i).startTime >= minute
                /\ (OccupiedSlots(i) = {} /\ PassOverToday)
                        => Placed(i).startTime = (IF minute > opens THEN minute ELSE opens)
                /\ (OccupiedSlots(i) = {} /\ ~PassOverToday)
                        => Placed(i).startTime = opens

\* a pass over today, called at a time that is not a whole minute and is inside the
\* operating window, placed a run that began earlier at the current minute
C30_Witness ==
    /\ OptimizeDone
    /\ PassOverToday
    /\ lastOp.now > CurrentMinute(lastOp.now)
    /\ \E i \in Placements :
            /\ CurrentMinute(lastOp.now) > WindowStart(Placed(i).lineId, lastOp.targetDay)
            /\ Placed(i).startTime = CurrentMinute(lastOp.now)
            /\ ById(lastOp.before, Placed(i).id).startTime < CurrentMinute(lastOp.now)

\* a pass over another day than today placed a run at the start of the operating
\* window, earlier in the day than the time the clock shows
C30_WitnessOtherDay ==
    /\ OptimizeDone
    /\ ~PassOverToday
    /\ \E i \in Placements :
            /\ Placed(i).startTime = WindowStart(Placed(i).lineId, lastOp.targetDay)
            /\ MinutesOfDay(Placed(i).startTime) < MinutesOfDay(lastOp.now)

----------------------------------------------------------------------------
(* C31 *)

SearchDone == lastOp.op = "search"

\* how many times the search moved its cursor on: once per collision
Collisions == Len(lastOp.cursors) - 1

\* the slots whose end the cursor was moved to
SlotsCollidedWith ==
    {k \in 1..Len(lastOp.slots) :
        \E c \in 2..Len(lastOp.cursors) : lastOp.cursors[c] = lastOp.slots[k].endTime}

\* C31: the slot search for one run ends, placed or given up: each collision moves the
\* cursor strictly forward, to the end of a slot it collided with, no slot end is
\* visited twice, and so there is at most one collision per occupied slot of the line;
\* the search gives the last cursor as the start when it places the run.
C31_SearchTerminates ==
    SearchDone =>
        /\ Collisions <= Len(lastOp.slots)
        /\ \A c \in 2..Len(lastOp.cursors) :
                /\ lastOp.cursors[c] > lastOp.cursors[c - 1]
                /\ \E k \in 1..Len(lastOp.slots) :
                        /\ lastOp.cursors[c] = lastOp.slots[k].endTime
                        /\ IntervalsMeet(lastOp.cursors[c - 1],
                                         lastOp.cursors[c - 1] + lastOp.durationMinutes,
                                         lastOp.slots[k].startTime, lastOp.slots[k].endTime)
        /\ lastOp.found # -1 => lastOp.found = lastOp.cursors[Len(lastOp.cursors)]

\* a search that collided with each of three occupied slots once and then placed the run
C31_Witness ==
    /\ SearchDone
    /\ Len(lastOp.slots) = MaxSlots
    /\ Collisions = Len(lastOp.slots)
    /\ Cardinality(SlotsCollidedWith) = Len(lastOp.slots)
    /\ lastOp.found # -1

\* a search that gave up after a collision: the cursor went past the operating window
C31_WitnessGivenUp ==
    /\ SearchDone
    /\ Collisions >= 1
    /\ lastOp.found = -1

----------------------------------------------------------------------------
(* C32 *)

\* the runs an array holds
RunsOf(arr) == {arr[i] : i \in 1..Len(arr)}

\* the runs of the array other than the one with this id are after the step as before
OthersAsBefore(id) ==
    /\ {r \in RunsOf(schedules) : r.id # id} = {r \in RunsOf(schedules') : r.id # id}
    /\ Len(schedules') = Len(schedules)

\* the k-th commit loop has handed its first waiting run to the store and got the
\* answer; its other runs wait as before, and so do the other loops
LoopAdvancedByOne(k) ==
    LET waiting == inflight[k].queue
    IN  /\ lastOp'.item = waiting[1]
        /\ IF Len(waiting) = 1
           THEN /\ Len(inflight') = Len(inflight) - 1
                /\ \A j \in 1..Len(inflight') :
                        inflight'[j] = inflight[IF j < k THEN j ELSE j + 1]
           ELSE /\ Len(inflight') = Len(inflight)
                /\ \A j \in 1..Len(inflight) : j # k => inflight'[j] = inflight[j]
                /\ inflight'[k].by = inflight[k].by
                /\ inflight'[k].queue = [i \in 1..(Len(waiting) - 1) |-> waiting[i + 1]]

\* C32: within one tick the transitions are committed one run at a time, in the order
\* of the tick's list: a step that commits for a tick commits the first run that tick
\* still has waiting and no other, whether the store takes it or refuses it, so the
\* transitions committed before stay in place and the ones after still wait; a refused
\* commit changes no run; a tick cut short by a reload leaves the rows as they are.
C32_OneAtATimeInOrder ==
    [][ /\ (lastOp'.op = "commit" /\ lastOp'.by = "tick" /\ inflight' # inflight) =>
            /\ \E k \in 1..Len(inflight) : inflight[k].by = "tick" /\ LoopAdvancedByOne(k)
            /\ OthersAsBefore(lastOp'.item.id)
            /\ lastOp'.taken =>
                    \A r \in RunsOf(schedules') :
                        r.id = lastOp'.item.id => r.status = lastOp'.item.status
            /\ ~lastOp'.taken => schedules' = schedules
        /\ (lastOp'.op = "reload" /\ inflight # <<>>) => schedules' = schedules
      ]_vars

\* a tick midway through a list of two: the store refused the first transition, the
\* second one, of another run, is still awaited
C32_Witness ==
    /\ lastOp.op = "commit"
    /\ lastOp.by = "tick"
    /\ ~lastOp.taken
    /\ \E k \in 1..Len(inflight) :
        /\ inflight[k].by = "tick"
        /\ Len(inflight[k].queue) = 1
        /\ inflight[k].queue[1].id # lastOp.item.id
        /\ inflight[k].queue[1].status = lastOp.item.status

\* a tick cut short: after the reload one run is Em Progresso, committed by the tick,
\* and another run is still due for the same transition
C32_WitnessCutShort ==
    /\ lastOp.op = "reload"
    /\ \E r \in RunsOf(schedules) : r.status = EmProgresso /\ r.startTime = At(1, 8, 0, 0)
                                   /\ r.productId = "PN" /\ r.id = 1
    /\ \E r \in RunsOf(schedules) : r.id = 2 /\ r.status = Pendente
                                   /\ r.startTime <= now /\ now < r.endTime

----------------------------------------------------------------------------
(* C33 *)

\* the run of the array with this id
TheRun(arr, id) == CHOOSE r \in RunsOf(arr) : r.id = id

\* the tick before was cut short: the transitions of the runs in lastOp.failing were
\* not committed
TickCutShort == lastOp.op = "tick" /\ lastOp.failing # {}

\* this step is a tick that runs to completion, every commit taken
CompleteTickStep ==
    /\ lastOp'.op = "tick"
    /\ lastOp'.failing = {}
    /\ lastOp'.before = schedules
    /\ lastOp'.now = now

\* C33 as stated: the next tick that runs to completion after a tick cut short brings
\* every run the cut-short tick left untransitioned out of the status it was left in.
C33_Original ==
    [][ (TickCutShort /\ CompleteTickStep) =>
            \A id \in lastOp.failing :
                TheRun(schedules', id).status # TheRun(lastOp.before, id).status
      ]_vars

\* what the rule of the clock gives for a run at an instant
DueStatus(r, t) ==
    IF r.status = Pendente /\ r.startTime <= t /\ t < r.endTime THEN EmProgresso
    ELSE IF r.status = EmProgresso /\ r.endTime <= t THEN Concluido
    ELSE r.status

\* C33, amended: the next tick that runs to completion after a tick cut short applies
\* to every run the cut-short tick left untransitioned the transition due at its own
\* instant: a Pendente run becomes Em Progresso if that instant is within [start, end),
\* an Em Progresso run becomes Concluido if it is at or after the end, and a Pendente
\* run whose end has passed by then stays Pendente; nothing else of the run changes.
C33_NextTickAppliesRule ==
    [][ (TickCutShort /\ CompleteTickStep) =>
            \A id \in lastOp.failing :
                TheRun(schedules', id) =
                    [TheRun(schedules, id) EXCEPT
                        !.status = DueStatus(TheRun(schedules, id), now)]
      ]_vars

\* after a refused commit earlier on, a complete tick has brought the run of 12 units
\* to Em Progresso, next to the run on L2 that an earlier tick had already brought there
C33_Witness ==
    /\ lastOp.op = "tick"
    /\ lastOp.failing = {}
    /\ error = "updateSchedule"
    /\ Len(lastOp.schedulesToUpdate) = 1
    /\ \E a, b \in RunsOf(schedules) :
        /\ a.lineId = "L2" /\ a.status = EmProgresso
        /\ TheRun(lastOp.before, a.id).status = EmProgresso
        /\ b.quantity = 12 /\ b.status = EmProgresso
        /\ TheRun(lastOp.before, b.id).status = Pendente

\* after a refused commit earlier on, a complete tick at the end of the run found it
\* Pendente and left it so
C33_WitnessLeftPending ==
    /\ lastOp.op = "tick"
    /\ lastOp.failing = {}
    /\ error = "updateSchedule"
    /\ Len(schedules) = 1
    /\ schedules[1].status = Pendente
    /\ schedules[1].lineId = "L2"
    /\ schedules[1].endTime <= lastOp.now

----------------------------------------------------------------------------
(* C34 *)

\* the runs that start on the target day: each is relocated by the pass or left in place
RunsOfTheDay ==
    {k \in 1..Len(lastOp.before) : DayOf(BeforePass(k).startTime) = lastOp.targetDay}

\* the entries of the trace that are about the run
EntriesAbout(k) ==
    {d \in 1..Len(lastOp.details) : lastOp.details[d].ref = BeforePass(k).id}

\* C34, as claimed: the trace the pass returns has one entry for every run that starts
\* on the target day, Top Seller runs and runs on a line that does not resolve included.
C34_Original ==
    OptimizeDone => \A k \in RunsOfTheDay : Cardinality(EntriesAbout(k)) = 1

----------------------------------------------------------------------------
(* C35 *)

\* the run the commit of this step is about, as the store held it before the step and
\* as it holds it after
MovedBefore == ById(schedules, lastOp'.item.id)
MovedAfter == ById(schedules', lastOp'.item.id)

\* C35, as claimed: a manual move that is committed changes the start, the end and the
\* line of the run and nothing else: its length (end minus start) is after the commit
\* what it was before, and its id, product, quantity, status and note are unchanged.
C35_Original ==
    [][CommitTakenBy("drop") =>
            /\ MovedAfter.endTime - MovedAfter.startTime
                    = MovedBefore.endTime - MovedBefore.startTime
            /\ MovedAfter.id = MovedBefore.id
            /\ MovedAfter.productId = MovedBefore.productId
            /\ MovedAfter.quantity = MovedBefore.quantity
            /\ MovedAfter.status = MovedBefore.status
            /\ MovedAfter.notes = MovedBefore.notes
      ]_vars

----------------------------------------------------------------------------
(* C36 *)

\* a calendar was handed to onSubmit to be saved
LineSaved == lastOp.op = "submitLine"

\* the minute of the day a time of the form stands for
ClockMinutes(t) == t[1] * 60 + t[2]

----------------------------------------------------------------------------
(* C37 *)

\* the verdict of checkDropValidity on the move that the commit of this step writes:
\* the run as the store holds it at the time of the commit, the line and the start
\* written, against the runs the store holds then, the clock read as at the drop
VerdictAtCommit(droppedAt) ==
    checkDropValidity(MovedBefore, lastOp'.item.lineId, lastOp'.item.startTime,
                      DayOf(lastOp'.item.startTime), droppedAt, schedules)

\* C37, as claimed: a manual move is committed only if checkDropValidity accepts the
\* run, the target line and the start against the runs current at the time of the
\* commit, whatever drag starts, drops, clock ticks and passes came before.
C37_Original ==
    [][CommitTakenBy("drop") =>
            \E k \in 1..Len(inflight) :
                /\ inflight[k].by = "drop"
                /\ inflight[k].queue[1] = lastOp'.item
                /\ VerdictAtCommit(inflight[k].at).valid
      ]_vars

----------------------------------------------------------------------------
(* C38 *)

\* the movable runs of the day the pass assigned a slot to
AssignedASlot == {k \in MovableOfTheDay : \E i \in Placements : Placed(i).id = BeforePass(k).id}

\* the runs of the day that are not movable and that the pass counts as unoptimized:
\* on a line that resolves, a Normal product that has left Pendente and a product that
\* does not resolve
LockedAndCounted ==
    {k \in 1..Len(lastOp.before) :
        /\ DayOf(BeforePass(k).startTime) = lastOp.targetDay
        /\ BeforePass(k).lineId \in DOMAIN productionLines
        /\ ~MovableRun(BeforePass(k))
        /\ ClassificationOf(BeforePass(k).productId) # TopSeller}

\* the placements of the pass that the store took
PlacementsCommitted == {i \in Placements : Placed(i).id \notin lastOp.failing}

\* C38: every movable run that starts on the target day is counted once by the pass,
\* in optimizedCount if the pass assigned it a slot and in unoptimizedCount otherwise,
\* never in both (unoptimizedCount holding besides them the locked runs the pass
\* counts), and optimizedCount is the number of placements the pass commits: one
\* commit handed to the store per run that was assigned a slot.
C38_CountedOnce ==
    OptimizeDone =>
        /\ lastOp.optimizedCount = Cardinality(AssignedASlot)
        /\ lastOp.unoptimizedCount
                = Cardinality(MovableOfTheDay \ AssignedASlot) + Cardinality(LockedAndCounted)
        /\ \A i, j \in Placements : Placed(i).id = Placed(j).id => i = j
        /\ \A i \in Placements : \E k \in AssignedASlot : BeforePass(k).id = Placed(i).id
        /\ lastOp.optimizedCount = Cardinality(Placements)

\* a pass over three runs of the day: one assigned a slot, one movable run left where
\* it was, one locked run counted with it
C38_Witness ==
    /\ OptimizeDone
    /\ Cardinality(AssignedASlot) = 1
    /\ Cardinality(MovableOfTheDay \ AssignedASlot) = 1
    /\ Cardinality(LockedAndCounted) = 1
    /\ lastOp.optimizedCount = 1
    /\ lastOp.unoptimizedCount = 2

\* a pass with a movable run left where it was on a line the catalog lacks
C38_WitnessUnknownLine ==
    /\ OptimizeDone
    /\ \E k \in MovableOfTheDay \ AssignedASlot :
            BeforePass(k).lineId \notin DOMAIN productionLines
    /\ lastOp.unoptimizedCount >= 1

\* a pass that assigned slots to two runs and had the commit of one refused: both are
\* in optimizedCount
C38_WitnessRefused ==
    /\ OptimizeDone
    /\ lastOp.optimizedCount = 2
    /\ Cardinality(PlacementsCommitted) = 1

----------------------------------------------------------------------------
(* C39 *)

\* C39: no tick takes a run from Pendente to Concluido, and a Pendente run whose end is
\* at or before the clock is Pendente after every step; as the clock never goes back,
\* such a run is left Pendente by every later tick and never becomes Em Progresso or
\* Concluido by the clock.
C39_MissedRunStaysPending ==
    [][ /\ now' >= now
        /\ \A r \in RunsOf(schedules) :
            /\ r.status = Pendente => TheRun(schedules', r.id).status # Concluido
            /\ (r.status = Pendente /\ r.endTime <= now) => TheRun(schedules', r.id) = r
      ]_vars

\* a tick that found nothing to do, over a run of 12 units that is Pendente with its
\* end already passed
C39_Witness ==
    /\ TickDone
    /\ error = "none"
    /\ lastOp.schedulesToUpdate = <<>>
    /\ \E r \in RunsOf(lastOp.before) :
        /\ r.quantity = 12
        /\ r.status = Pendente
        /\ r.endTime <= lastOp.now
        /\ TheRun(schedules, r.id) = r

====
